---------------------------- MODULE Spec2Model ----------------------------
(***************************************************************************)
(* A model of elven-forest: the ELF64 writer (elven-parser/src/write.rs),  *)
(* the zero-copy reader (elven-parser/src/read.rs) and the linker driver   *)
(* (elven-wald/src/lib.rs, storage.rs, utils.rs).                          *)
(*                                                                         *)
(* Byte buffers are sequences of numbers 0..255.  Integers of the program  *)
(* that take part in arithmetic are numbers; every value the model builds  *)
(* stays below 2^31.  The two header fields the writer pre-fills with      *)
(* wider patterns (entry = 0x3333333333333333, flags = u32::MAX) are       *)
(* carried as their little-endian bytes.                                   *)
(***************************************************************************)
EXTENDS Integers, Sequences, FiniteSets, TLC

VARIABLES
    debug_assertions, \* the build: TRUE when debug_assert! is compiled in
    writer,           \* the ElfWriter under construction
    strs,             \* log of add_sh_string calls: <<[content, ret]>>
    supplied,         \* log of add_section calls: <<[section, ret]>>
    output,           \* what the last write() produced
    parsed,           \* what the ElfReader read back from output
    objs,             \* opts.objs: the input paths, as indices into Disk
    pc,               \* where run() stands
    storage,          \* cx.storage, the StorageAllocation
    sym_defs,         \* cx.sym_defs, keyed by symbol name
    elf_idx,          \* sym_first_pass: the file being scanned (0-based)
    sym_idx,          \* sym_first_pass: the next symbol of that file (0-based)
    text_content,     \* run(): the .text bytes of the first file
    start_sym,        \* run(): the symbol found for _start
    out_file,         \* the images written to opts.output, oldest first
    result,           \* what run() returned
    buf,              \* the bytes an ElfReader is asked to read
    reader,           \* what ElfReader::new(buf) returned
    read_phs,         \* what reader.program_headers() returned
    read_shs,         \* what reader.section_headers() returned
    read_syms,        \* what reader.symbols() returned
    read_content,     \* the section header given to reader.section_content() and what it returned
    read_string,      \* the call of reader.sh_string() or reader.string() made and what it returned
    align_n,          \* align_up: the number to align
    align_align,      \* align_up: the alignment asked for
    align_ret,        \* align_up: what the call came to
    args,             \* opts::parse: the arguments not yet taken from the iterator
    opts,             \* opts::parse: the Opts filled so far
    input_files,      \* opts::parse: files, the input files collected so far
    require_value,    \* opts::parse: the option whose value the next argument is
    parse_ret         \* opts::parse: what it returned

wvars == <<debug_assertions, writer, strs, supplied, output, parsed>>

lvars == <<objs, pc, storage, sym_defs, elf_idx, sym_idx, text_content, start_sym,
           out_file, result>>

rvars == <<buf, reader, read_phs, read_shs, read_syms, read_content, read_string>>

avars == <<align_n, align_align, align_ret>>

pvars == <<args, opts, input_files, require_value, parse_ret>>

vars == <<wvars, lvars, rvars, avars, pvars>>

-----------------------------------------------------------------------------
(* Bounds of the model *)

MaxStrings == 1
MaxSections == 1
MaxPhdrs == 1
MaxFiles == 2

-----------------------------------------------------------------------------
(* Constants of the ELF format *)

SELFMAG == 4
ELFMAG == <<127, 69, 76, 70>>
ELFCLASS64 == 2
ELFDATA2LSB == 1
ELFOSABI_SYSV == 0
ET_EXEC == 2
EM_X86_64 == 62
SHN_UNDEF == 0
SHN_LORESERVE == 65280
SHT_NULL == 0
SHT_PROGBITS == 1
SHT_SYMTAB == 2
SHT_STRTAB == 3
SHT_NOBITS == 8
SH_STRTAB == 1
U16_MAX == 65535

\* mem::size_of of the three #[repr(C)] records
SizeOfElfHeader == 64
SizeOfPhdr == 56
SizeOfShdr == 64

None == [some |-> FALSE]
Some(v) == [some |-> TRUE, val |-> v]

Ok(v) == [ok |-> TRUE, val |-> v]
Err(e) == [ok |-> FALSE, err |-> e]

-----------------------------------------------------------------------------
(* Little-endian encoding of plain-old-data fields (bytemuck casts) *)

\* Byte i (1-based) of the little-endian encoding of n.  Every n of the model
\* is below 2^31 = 256^4 / 2, so the bytes past the fourth are zero.
LEByte(n, i) == IF i > 4 THEN 0 ELSE (n \div (256 ^ (i - 1))) % 256

LE(n, w) == [i \in 1..w |-> LEByte(n, i)]

RECURSIVE FromLE(_)
FromLE(b) == IF b = <<>> THEN 0 ELSE b[1] + 256 * FromLE(Tail(b))

Zeros(n) == [i \in 1..n |-> 0]

RECURSIVE BitAnd(_, _)
BitAnd(a, b) ==
    IF a = 0 \/ b = 0 THEN 0
    ELSE (a % 2) * (b % 2) + 2 * BitAnd(a \div 2, b \div 2)

is_power_of_two(n) == n > 0 /\ BitAnd(n, n - 1) = 0

IdentBytes(id) ==
    id.magic \o <<id.class, id.data, id.version, id.osabi, id.abiversion>> \o Zeros(7)

ElfHeaderBytes(h) ==
    IdentBytes(h.ident) \o LE(h.type, 2) \o LE(h.machine, 2) \o LE(h.version, 4)
    \o h.entry \o LE(h.phoff, 8) \o LE(h.shoff, 8) \o h.flags
    \o LE(h.ehsize, 2) \o LE(h.phentsize, 2) \o LE(h.phnum, 2)
    \o LE(h.shentsize, 2) \o LE(h.shnum, 2) \o LE(h.shstrndex, 2)

PhdrBytes(p) ==
    LE(p.type, 4) \o LE(p.flags, 4) \o LE(p.offset, 8) \o LE(p.vaddr, 8)
    \o LE(p.paddr, 8) \o LE(p.filesz, 8) \o LE(p.memsz, 8) \o LE(p.align, 8)

ShdrBytes(s) ==
    LE(s.name, 4) \o LE(s.type, 4) \o LE(s.flags, 8) \o LE(s.addr, 8)
    \o LE(s.offset, 8) \o LE(s.size, 8) \o LE(s.link, 4) \o LE(s.info, 4)
    \o LE(s.addralign, 8) \o LE(s.entsize, 8)

-----------------------------------------------------------------------------
(* ElfWriter: the builder *)

ElfWriter_new(header) ==
    [ header |->
        [ ident |-> header.ident, type |-> header.type, machine |-> header.machine,
          version |-> 1,
          entry |-> [i \in 1..8 |-> 51],      \* Addr(0x3333333333333333)
          phoff |-> 0, shoff |-> 0,
          flags |-> [i \in 1..4 |-> 255],     \* u32::MAX
          ehsize |-> SizeOfElfHeader, phentsize |-> SizeOfPhdr,
          phnum |-> 13107,                   \* 0x3333, set by write()
          shentsize |-> SizeOfShdr,
          shnum |-> 13107,                   \* 0x3333, set by write()
          shstrndex |-> SH_STRTAB ],
      sections |->
        << [ name |-> 0, type |-> SHT_NULL, flags |-> 0, content |-> <<>>,
             fixed_entsize |-> None, addr_align |-> None ],
           [ name |-> 1, type |-> SHT_STRTAB, flags |-> 0,
             \* b"\0.shstrtab\0"
             content |-> <<0, 46, 115, 104, 115, 116, 114, 116, 97, 98, 0>>,
             fixed_entsize |-> None, addr_align |-> None ] >>,
      programs_headers |-> <<>> ]

set_entry(w, entry) == [w EXCEPT !.header.entry = LE(entry, 8)]

\* add_sh_string without the terminating nul.
add_sh_string_no_nul(w, content) ==
    LET idx == Len(w.sections[SH_STRTAB + 1].content)
    IN [ w |-> [w EXCEPT !.sections[SH_STRTAB + 1].content = @ \o content],
         ret |-> idx ]

\* add_sh_string that takes the length of the table after it has grown.
add_sh_string_idx_after(w, content) ==
    LET idx == Len(w.sections[SH_STRTAB + 1].content) + Len(content) + 1
    IN [ w |-> [w EXCEPT !.sections[SH_STRTAB + 1].content = @ \o content \o <<0>>],
         ret |-> idx ]

\* [w |-> the writer afterwards, ret |-> the ShStringIdx returned]
add_sh_string(w, content) ==
    LET idx == Len(w.sections[SH_STRTAB + 1].content)
    IN [ w |-> [w EXCEPT !.sections[SH_STRTAB + 1].content = @ \o content \o <<0>>],
         ret |-> idx ]

\* [w |-> the writer afterwards, ret |-> Ok(SectionIdx) or Err(TooMany)]
add_section(w, section) ==
    LET len == Len(w.sections)
    IN [ w |-> [w EXCEPT !.sections = Append(@, section)],
         ret |-> IF len <= U16_MAX THEN Ok(len) ELSE Err(<<"TooMany", "sections">>) ]

add_program_header(w, ph) == [w EXCEPT !.programs_headers = Append(@, ph)]


-----------------------------------------------------------------------------
(* ElfWriter: layout and write *)

\* align_up that forgets to add align: it rounds down.
align_up_rounds_down(n, align) ==
    [panic |-> FALSE, val |-> n - BitAnd(n, align - 1)]

\* Align n up to align.  [panic |-> a debug assertion failed, val |-> result]
align_up(n, align) ==
    LET required_mask == align - 1
        masked == BitAnd(n, required_mask)
        next_down == n - masked
        ret == next_down + align
    IN IF debug_assertions /\ ~is_power_of_two(align)
       THEN [panic |-> TRUE, val |-> 0]
       ELSE IF masked = 0 THEN [panic |-> FALSE, val |-> n]
       ELSE IF debug_assertions /\ ~(ret >= n /\ BitAnd(ret, align) = 0)
       THEN [panic |-> TRUE, val |-> 0]
       ELSE [panic |-> FALSE, val |-> ret]

ph_offset(l) == SizeOfElfHeader
phs_byte_size(l) == l.ph_amount * SizeOfPhdr
sh_offset(l) == ph_offset(l) + phs_byte_size(l)
shs_byte_size(l) == l.sh_amount * SizeOfShdr
section_contents_offset(l) == sh_offset(l) + shs_byte_size(l)

\* The loop of layout(): the offsets given to sections i.. with the cursor at
\* current_offset.
RECURSIVE layout_loop(_, _, _, _)
layout_loop(sections, i, current_offset, offsets) ==
    IF i > Len(sections) THEN [panic |-> FALSE, offsets |-> offsets]
    ELSE IF Len(sections[i].content) = 0
    THEN layout_loop(sections, i + 1, current_offset, Append(offsets, 0))
    ELSE LET a == align_up(current_offset,
                           IF sections[i].addr_align.some
                           THEN sections[i].addr_align.val ELSE 1)
         IN IF a.panic THEN [panic |-> TRUE, offsets |-> offsets]
            ELSE layout_loop(sections, i + 1, a.val + Len(sections[i].content),
                             Append(offsets, a.val))

layout(w) ==
    LET l0 == [ sh_amount |-> Len(w.sections), ph_amount |-> Len(w.programs_headers) ]
        r == layout_loop(w.sections, 1, section_contents_offset(l0), <<>>)
    IN [ sh_amount |-> l0.sh_amount, ph_amount |-> l0.ph_amount,
         panic |-> r.panic,
         section_content_offsets |-> r.offsets,
         section_content_end_offset |->
            IF r.panic THEN 0
            ELSE r.offsets[Len(r.offsets)] + Len(w.sections[Len(w.sections)].content) ]

\* WritePhdrs that leaves the offset relative to its section.
WritePhdrs_rel_only(w, l) ==
    LET one(ph) ==
          PhdrBytes([ type |-> ph.type, flags |-> ph.flags,
                      offset |-> ph.offset.rel_offset,
                      vaddr |-> ph.vaddr, paddr |-> ph.paddr, filesz |-> ph.filesz,
                      memsz |-> ph.memsz, align |-> ph.align ])
        RECURSIVE go(_)
        go(i) == IF i > Len(w.programs_headers) THEN <<>>
                 ELSE one(w.programs_headers[i]) \o go(i + 1)
    IN go(1)

\* The program headers as written: the section-relative offset made absolute.
WritePhdrs(w, l) ==
    LET one(ph) ==
          PhdrBytes([ type |-> ph.type, flags |-> ph.flags,
                      offset |-> l.section_content_offsets[ph.offset.section + 1]
                                 + ph.offset.rel_offset,
                      vaddr |-> ph.vaddr, paddr |-> ph.paddr, filesz |-> ph.filesz,
                      memsz |-> ph.memsz, align |-> ph.align ])
        RECURSIVE go(_)
        go(i) == IF i > Len(w.programs_headers) THEN <<>>
                 ELSE one(w.programs_headers[i]) \o go(i + 1)
    IN go(1)

\* The section headers as written: the null header, then sections 1.. .
WriteShdrs(w, l) ==
    LET null_sh == [ name |-> 0, type |-> SHT_NULL, flags |-> 0, addr |-> 0,
                     offset |-> 0, size |-> 0, link |-> 0, info |-> 0,
                     addralign |-> 0, entsize |-> 0 ]
        one(i) ==
          ShdrBytes([ name |-> w.sections[i].name, type |-> w.sections[i].type,
                      flags |-> w.sections[i].flags, addr |-> 0,
                      offset |-> l.section_content_offsets[i],
                      size |-> Len(w.sections[i].content), link |-> 0, info |-> 0,
                      addralign |-> 0,
                      entsize |-> IF w.sections[i].fixed_entsize.some
                                  THEN w.sections[i].fixed_entsize.val ELSE 0 ])
        RECURSIVE go(_)
        go(i) == IF i > Len(w.sections) THEN <<>> ELSE one(i) \o go(i + 1)
    IN ShdrBytes(null_sh) \o go(2)

\* The section contents appended to out, each padded up to its offset.
\* [panic |-> the padding length underflowed, bytes |-> the output]
RECURSIVE WriteContents(_, _, _, _)
WriteContents(w, l, i, out) ==
    IF i > Len(w.sections) THEN [panic |-> FALSE, bytes |-> out]
    ELSE IF Len(w.sections[i].content) = 0 THEN WriteContents(w, l, i + 1, out)
    ELSE LET pre_padding == l.section_content_offsets[i] - Len(out)
         IN IF pre_padding < 0 THEN [panic |-> TRUE, bytes |-> out]
            ELSE WriteContents(w, l, i + 1,
                               out \o Zeros(pre_padding) \o w.sections[i].content)

Written(bytes) == [tag |-> "Ok", bytes |-> bytes]
Failed(e) == [tag |-> "Err", err |-> e]
Panic(at) == [tag |-> "Panic", at |-> at]
NoOutput == [tag |-> "None"]

write(w) ==
    IF Len(w.sections) > U16_MAX THEN Failed(<<"TooMany", "sections">>)
    ELSE IF Len(w.programs_headers) > U16_MAX
    THEN Failed(<<"TooMany", "program headers">>)
    ELSE
    LET l == layout(w)
        header == [w.header EXCEPT
                      !.shnum = Len(w.sections),
                      !.phnum = Len(w.programs_headers),
                      !.phoff = IF w.programs_headers # <<>> THEN ph_offset(l) ELSE @,
                      !.shoff = IF w.sections # <<>> THEN sh_offset(l) ELSE @]
        out1 == ElfHeaderBytes(header) \o WritePhdrs(w, l)
        out2 == out1 \o WriteShdrs(w, l)
        out3 == WriteContents(w, l, 1, out2)
    IN IF l.panic THEN Panic("align_up")
       ELSE IF \E i \in DOMAIN w.programs_headers :
                  w.programs_headers[i].offset.section >= Len(l.section_content_offsets)
       THEN Panic("section_content_offsets index")
       ELSE IF Len(out1) # sh_offset(l) THEN Panic("sh_offset")
       ELSE IF Len(out2) # section_contents_offset(l) THEN Panic("section_contents_offset")
       ELSE IF out3.panic THEN Panic("pre_padding")
       ELSE IF Len(out3.bytes) # l.section_content_end_offset
       THEN Panic("section_content_end_offset")
       ELSE Written(out3.bytes)

-----------------------------------------------------------------------------
(* ElfReader *)

\* <[T]>::get_elf for the three index shapes: start.., ..end and a position.
get_elf_from(data, start, msg) ==
    IF start <= Len(data) THEN Ok(SubSeq(data, start + 1, Len(data)))
    ELSE Err(<<"IndexOutOfBounds", msg, start>>)

\* get_elf(..end) that stops at the end of data where end lies past it.
get_elf_to_clamped(data, end, msg) ==
    Ok(SubSeq(data, 1, IF end <= Len(data) THEN end ELSE Len(data)))

get_elf_to(data, end, msg) ==
    IF end <= Len(data) THEN Ok(SubSeq(data, 1, end))
    ELSE Err(<<"IndexOutOfBounds", msg, end>>)

get_elf_at(items, idx, msg) ==
    IF idx < Len(items) THEN Ok(items[idx + 1])
    ELSE Err(<<"IndexOutOfBounds", msg, idx>>)

Field(b, off, w) == FromLE(SubSeq(b, off + 1, off + w))

ParseElfHeader(b) ==
    [ ident |-> [ magic |-> SubSeq(b, 1, 4), class |-> b[5], data |-> b[6],
                  version |-> b[7], osabi |-> b[8], abiversion |-> b[9] ],
      type |-> Field(b, 16, 2), machine |-> Field(b, 18, 2),
      version |-> Field(b, 20, 4), entry |-> SubSeq(b, 25, 32),
      phoff |-> Field(b, 32, 8), shoff |-> Field(b, 40, 8),
      flags |-> SubSeq(b, 49, 52), ehsize |-> Field(b, 52, 2),
      phentsize |-> Field(b, 54, 2), phnum |-> Field(b, 56, 2),
      shentsize |-> Field(b, 58, 2), shnum |-> Field(b, 60, 2),
      shstrndex |-> Field(b, 62, 2) ]

ParsePhdr(b) ==
    [ type |-> Field(b, 0, 4), flags |-> Field(b, 4, 4), offset |-> Field(b, 8, 8),
      vaddr |-> Field(b, 16, 8), paddr |-> Field(b, 24, 8), filesz |-> Field(b, 32, 8),
      memsz |-> Field(b, 40, 8), align |-> Field(b, 48, 8) ]

ParseShdr(b) ==
    [ name |-> Field(b, 0, 4), type |-> Field(b, 4, 4), flags |-> Field(b, 8, 8),
      addr |-> Field(b, 16, 8), offset |-> Field(b, 24, 8), size |-> Field(b, 32, 8),
      link |-> Field(b, 40, 4), info |-> Field(b, 44, 4),
      addralign |-> Field(b, 48, 8), entsize |-> Field(b, 56, 8) ]

SizeOfSym == 24

ParseSym(b) ==
    [ name |-> Field(b, 0, 4), info |-> b[5], other |-> b[6],
      shndx |-> Field(b, 6, 2), value |-> Field(b, 8, 8), size |-> Field(b, 16, 8) ]

\* load_slice::<T>: data starts addr bytes into a buffer aligned to 8 bytes;
\* T is size_of_T bytes wide and aligned to align_of_T.  Ok of the
\* amount_of_elems records, each still as its bytes (the cast to T follows), or
\* the error.
load_slice(data, addr, amount_of_elems, kind, size_of_T, align_of_T) ==
    LET size == size_of_T * amount_of_elems
    IN IF Len(data) < size THEN Err(<<"RegionOutOfBounds", size, Len(data), kind>>)
       ELSE IF addr % align_of_T # 0
       THEN Err(<<"UnalignedInput", align_of_T>>)
       ELSE Ok([i \in 1..amount_of_elems |->
                   SubSeq(data, (i - 1) * size_of_T + 1, i * size_of_T)])

\* ElfReader::new that looks at the magic before the length.
ElfReader_new_magic_first(data) ==
    IF Len(data) >= SELFMAG /\ SubSeq(data, 1, SELFMAG) # ELFMAG
    THEN Err(<<"WrongMagic", SubSeq(data, 1, SELFMAG)>>)
    ELSE IF Len(data) < SizeOfElfHeader THEN Err(<<"FileTooSmall">>)
    ELSE Ok(data)

ElfReader_new(data) ==
    IF Len(data) < SizeOfElfHeader THEN Err(<<"FileTooSmall">>)
    ELSE IF SubSeq(data, 1, SELFMAG) # ELFMAG
    THEN Err(<<"WrongMagic", SubSeq(data, 1, SELFMAG)>>)
    ELSE Ok(data)

header(data) ==
    LET cast(r) == IF r.ok THEN Ok(ParseElfHeader(r.val[1])) ELSE r
    IN cast(load_slice(data, 0, 1, "header", SizeOfElfHeader, 8))

program_headers(data) ==
    LET cast(r) == IF r.ok THEN Ok([i \in DOMAIN r.val |-> ParsePhdr(r.val[i])]) ELSE r
        load(h, from) ==
           IF ~from.ok THEN from
           ELSE cast(load_slice(from.val, h.val.phoff, h.val.phnum,
                                "program headers", SizeOfPhdr, 8))
        with(h) ==
           IF ~h.ok THEN h
           ELSE IF h.val.phnum = 0 THEN Ok(<<>>)
           ELSE IF h.val.phentsize # SizeOfPhdr
           THEN Err(<<"InvalidPhEntSize", SizeOfPhdr, h.val.phentsize>>)
           ELSE load(h, get_elf_from(data, h.val.phoff, "program header offset"))
    IN with(header(data))

section_headers(data) ==
    LET cast(r) == IF r.ok THEN Ok([i \in DOMAIN r.val |-> ParseShdr(r.val[i])]) ELSE r
        load(h, from) ==
           IF ~from.ok THEN from
           ELSE cast(load_slice(from.val, h.val.shoff, h.val.shnum,
                                "section headers", SizeOfShdr, 8))
        with(h) ==
           IF ~h.ok THEN h
           ELSE IF h.val.shnum = 0 THEN Ok(<<>>)
           ELSE IF h.val.shentsize # SizeOfShdr
           THEN Err(<<"InvalidPhEntSize", SizeOfShdr, h.val.shentsize>>)
           ELSE load(h, get_elf_from(data, h.val.shoff, "section header offset"))
    IN with(header(data))

section_header(data, idx) ==
    LET at(sections) ==
           IF ~sections.ok THEN sections
           ELSE get_elf_at(sections.val, idx, "section number")
    IN at(section_headers(data))

\* section_content that reads the bytes of no-bits sections as of the others.
section_content_reads_nobits(data, sh) ==
    LET to(from) ==
           IF ~from.ok THEN from ELSE get_elf_to(from.val, sh.size, "section size")
    IN to(get_elf_from(data, sh.offset, "section offset"))

section_content(data, sh) ==
    IF sh.type = SHT_NOBITS THEN Ok(<<>>)
    ELSE LET to(from) ==
                IF ~from.ok THEN from ELSE get_elf_to(from.val, sh.size, "section size")
         IN to(get_elf_from(data, sh.offset, "section offset"))

sh_str_table(data) ==
    LET content(strtab_header) ==
           IF ~strtab_header.ok THEN strtab_header
           ELSE section_content(data, strtab_header.val)
        with(h) ==
           IF ~h.ok THEN h
           ELSE IF h.val.shstrndex = SHN_UNDEF THEN Err(<<"StrTableSectionNotPresent">>)
           ELSE IF h.val.shstrndex >= SHN_LORESERVE THEN Err(<<"todo!">>)
           ELSE content(section_header(data, h.val.shstrndex))
    IN with(header(data))

\* indexed.iter().position(|&c| c == b'\0'): 0-based, or -1 for None
RECURSIVE position_nul(_, _)
position_nul(indexed, i) ==
    IF i > Len(indexed) THEN -1
    ELSE IF indexed[i] = 0 THEN i - 1
    ELSE position_nul(indexed, i + 1)

\* string_in that takes the end of the table for a terminator.
string_in_unterminated(str_table_, idx) ==
    LET upto(indexed, end) ==
           IF end < 0 THEN Ok(indexed.val)
           ELSE Ok(SubSeq(indexed.val, 1, end))
        from(indexed) ==
           IF ~indexed.ok THEN indexed
           ELSE upto(indexed, position_nul(indexed.val, 1))
    IN from(get_elf_from(str_table_, idx, "string offset"))

\* The common tail of sh_string, string: the bytes of table at idx up to the nul.
string_in(str_table_, idx) ==
    LET upto(indexed, end) ==
           IF end < 0 THEN Err(<<"NoStringNulTerm", idx>>)
           ELSE Ok(SubSeq(indexed.val, 1, end))
        from(indexed) ==
           IF ~indexed.ok THEN indexed
           ELSE upto(indexed, position_nul(indexed.val, 1))
    IN from(get_elf_from(str_table_, idx, "string offset"))

sh_string(data, idx) ==
    LET in(table) == IF ~table.ok THEN table ELSE string_in(table.val, idx)
    IN in(sh_str_table(data))

\* The loop of section_header_by_name over sections i.. .
RECURSIVE section_header_by_name_loop(_, _, _, _)
section_header_by_name_loop(data, sections, i, name) ==
    LET named(n) ==
           IF ~n.ok THEN n
           ELSE IF n.val = name THEN Ok(sections[i])
           ELSE section_header_by_name_loop(data, sections, i + 1, name)
    IN IF i > Len(sections) THEN Err(<<"NotFoundByName", "section", name>>)
       ELSE named(sh_string(data, sections[i].name))

section_header_by_name(data, name) ==
    LET among(sections) ==
           IF ~sections.ok THEN sections
           ELSE section_header_by_name_loop(data, sections.val, 1, name)
    IN among(section_headers(data))

section_header_by_type(data, ty) ==
    LET among(sections) ==
           IF ~sections.ok THEN sections
           ELSE IF \E i \in DOMAIN sections.val : sections.val[i].type = ty
           THEN Ok(sections.val[CHOOSE i \in DOMAIN sections.val :
                                   /\ sections.val[i].type = ty
                                   /\ \A j \in 1..(i - 1) : sections.val[j].type # ty])
           ELSE Err(<<"SectionTypeNotFound", ty>>)
    IN among(section_headers(data))

\* b".strtab"
DotStrtab == <<46, 115, 116, 114, 116, 97, 98>>

str_table(data) ==
    LET content(sh) == IF ~sh.ok THEN sh ELSE section_content(data, sh.val)
    IN content(section_header_by_name(data, DotStrtab))

string(data, idx) ==
    LET in(table) == IF ~table.ok THEN table ELSE string_in(table.val, idx)
    IN in(str_table(data))

symbols(data) ==
    LET cast(r) == IF r.ok THEN Ok([i \in DOMAIN r.val |-> ParseSym(r.val[i])]) ELSE r
        load(sh, content) ==
           IF ~content.ok THEN content
           ELSE cast(load_slice(content.val, sh.val.offset,
                                Len(content.val) \div SizeOfSym, "symbols", SizeOfSym, 8))
        of(sh) == IF ~sh.ok THEN sh ELSE load(sh, section_content(data, sh.val))
    IN of(section_header_by_type(data, SHT_SYMTAB))

\* The loop of symbol_by_name over symbols i.. .
RECURSIVE symbol_by_name_loop(_, _, _, _)
symbol_by_name_loop(data, syms, i, name) ==
    LET named(sym_name) ==
           IF ~sym_name.ok THEN sym_name
           ELSE IF sym_name.val = name THEN Ok(syms[i])
           ELSE symbol_by_name_loop(data, syms, i + 1, name)
    IN IF i > Len(syms) THEN Err(<<"NotFoundByName", "symbol", name>>)
       ELSE named(string(data, syms[i].name))

symbol_by_name(data, name) ==
    LET among(syms) ==
           IF ~syms.ok THEN syms ELSE symbol_by_name_loop(data, syms.val, 1, name)
    IN among(symbols(data))

\* SymInfo::type
SymInfo_type(info) == info % 16


-----------------------------------------------------------------------------
(* The writer and a reader of its output as a state machine *)

PT_LOAD == 1
PF_R == 4
BASE_EXEC_ADDR == 4194304
DEFAULT_PAGE_ALIGN == 4096

\* The ident create_elf() builds, and one that does not start with ELFMAG.
Ident(magic) ==
    [ magic |-> magic, class |-> ELFCLASS64, data |-> ELFDATA2LSB, version |-> 1,
      osabi |-> ELFOSABI_SYSV, abiversion |-> 0 ]

Headers ==
    { [ ident |-> Ident(m), type |-> ET_EXEC, machine |-> EM_X86_64 ] :
        m \in { ELFMAG, <<127, 69, 76, 71>> } }

\* Section names handed to add_sh_string (nul-free).
Names == { <<97>> }

Entries == { BASE_EXEC_ADDR + DEFAULT_PAGE_ALIGN }

\* The (type, addr_align, content) of the sections a caller adds: plain and
\* aligned program data, an empty section, and a no-bits section given bytes.
SectionShapes ==
    { [ type |-> SHT_PROGBITS, addr_align |-> None, content |-> <<1, 2, 3>> ],
      [ type |-> SHT_PROGBITS, addr_align |-> Some(8), content |-> <<4, 5>> ],
      [ type |-> SHT_PROGBITS, addr_align |-> None, content |-> <<>> ],
      [ type |-> SHT_NOBITS, addr_align |-> Some(8), content |-> <<6>> ] }

\* The sections a caller can add: named by the null string or by an index
\* add_sh_string returned.
SectionsToAdd ==
    { [ name |-> n, type |-> sh.type, flags |-> 0, fixed_entsize |-> None,
        addr_align |-> sh.addr_align, content |-> sh.content ] :
        n \in {0} \cup { strs[i].ret : i \in DOMAIN strs }, sh \in SectionShapes }

\* Program headers naming a section ordinal, existing or one past the last.
PhdrsToAdd ==
    { [ type |-> PT_LOAD, flags |-> PF_R,
        offset |-> [ section |-> sec, rel_offset |-> 0 ],
        vaddr |-> BASE_EXEC_ADDR, paddr |-> BASE_EXEC_ADDR,
        filesz |-> 176, memsz |-> 176, align |-> DEFAULT_PAGE_ALIGN ] :
        sec \in 0..Len(writer.sections) }

NoParse == [tag |-> "None"]

\* What a client of ElfReader gets back from data: the reader, its header, its
\* section headers, and per section header its name and its content.
ReadBackOf(data) ==
    LET r == ElfReader_new(data)
        hs == section_headers(data)
    IN IF ~r.ok THEN [tag |-> "Err", err |-> r.err]
       ELSE [ tag |-> "Ok",
              header |-> header(data),
              program_headers |-> program_headers(data),
              section_headers |-> hs,
              names |-> IF hs.ok
                        THEN [i \in DOMAIN hs.val |-> sh_string(data, hs.val[i].name)]
                        ELSE <<>>,
              contents |-> IF hs.ok
                           THEN [i \in DOMAIN hs.val |-> section_content(data, hs.val[i])]
                           ELSE <<>> ]

\* No link is running.
\* No call of align_up is followed, no argument list is parsed.
NotCalled == [tag |-> "None"]

AlignIdle ==
    /\ align_n = 0
    /\ align_align = 1
    /\ align_ret = NotCalled

ParseIdle ==
    /\ args = <<>>
    /\ opts = <<>>
    /\ input_files = <<>>
    /\ require_value = None
    /\ parse_ret = NotCalled

\* No call of the reader has been made.
NotRead == [tag |-> "None"]

\* No reader is at work.
ReadIdle ==
    /\ buf = <<>>
    /\ reader = NotRead
    /\ read_phs = NotRead
    /\ read_shs = NotRead
    /\ read_syms = NotRead
    /\ read_content = NotRead
    /\ read_string = NotRead

LinkIdle ==
    /\ objs = <<>>
    /\ pc = "idle"
    /\ storage = <<>>
    /\ sym_defs = <<>>
    /\ elf_idx = 0
    /\ sym_idx = 0
    /\ text_content = <<>>
    /\ start_sym = None
    /\ out_file = <<>>
    /\ result = [tag |-> "None"]

Init ==
    /\ debug_assertions \in BOOLEAN
    /\ ReadIdle
    /\ AlignIdle
    /\ ParseIdle
    /\ \E h \in Headers : writer = ElfWriter_new(h)
    /\ strs = <<>>
    /\ supplied = <<>>
    /\ output = NoOutput
    /\ parsed = NoParse
    /\ LinkIdle

SetEntry ==
    /\ \E entry \in Entries : writer' = set_entry(writer, entry)
    /\ output' = NoOutput
    /\ parsed' = NoParse
    /\ UNCHANGED <<debug_assertions, strs, supplied, lvars, rvars, avars, pvars>>

AddShString ==
    /\ Len(strs) < MaxStrings
    /\ \E content \in Names :
          LET r == add_sh_string(writer, content)
          IN /\ writer' = r.w
             /\ strs' = Append(strs, [content |-> content, ret |-> r.ret])
    /\ output' = NoOutput
    /\ parsed' = NoParse
    /\ UNCHANGED <<debug_assertions, supplied, lvars, rvars, avars, pvars>>

AddSection ==
    /\ Len(supplied) < MaxSections
    /\ \E section \in SectionsToAdd :
          LET r == add_section(writer, section)
          IN /\ writer' = r.w
             /\ supplied' = Append(supplied, [section |-> section, ret |-> r.ret])
    /\ output' = NoOutput
    /\ parsed' = NoParse
    /\ UNCHANGED <<debug_assertions, strs, lvars, rvars, avars, pvars>>

AddProgramHeader ==
    /\ Len(writer.programs_headers) < MaxPhdrs
    /\ \E ph \in PhdrsToAdd : writer' = add_program_header(writer, ph)
    /\ output' = NoOutput
    /\ parsed' = NoParse
    /\ UNCHANGED <<debug_assertions, strs, supplied, lvars, rvars, avars, pvars>>

Write ==
    /\ output = NoOutput
    /\ output' = write(writer)
    /\ UNCHANGED <<debug_assertions, writer, strs, supplied, parsed, lvars, rvars, avars, pvars>>

ReadBack ==
    /\ output.tag = "Ok"
    /\ parsed = NoParse
    /\ parsed' = ReadBackOf(output.bytes)
    /\ UNCHANGED <<debug_assertions, writer, strs, supplied, output, lvars, rvars, avars, pvars>>

Next ==
    \/ SetEntry
    \/ AddShString
    \/ AddSection
    \/ AddProgramHeader
    \/ Write
    \/ ReadBack

Spec == Init /\ [][Next]_vars


-----------------------------------------------------------------------------
(* Claims about the writer and the reader of its output *)

\* The bytes a name index stands for: the null string new() seeds at 0, or the
\* content of the add_sh_string call that returned the index.
NameSupplied(idx) ==
    IF idx = 0 THEN <<>>
    ELSE LET i == CHOOSE j \in DOMAIN strs : strs[j].ret = idx IN strs[i].content

\* The header fields and the section count read back are those of the writer.
HeaderReadBack ==
    /\ parsed.tag = "Ok"
    /\ parsed.header.ok
    /\ parsed.header.val.ident = writer.header.ident
    /\ parsed.header.val.type = writer.header.type
    /\ parsed.header.val.machine = writer.header.machine
    /\ parsed.header.val.entry = writer.header.entry
    /\ parsed.section_headers.ok
    /\ Len(parsed.section_headers.val) = 2 + Len(supplied)

NameReadBack(k) ==
    /\ supplied[k].ret.ok
    /\ parsed.names[supplied[k].ret.val + 1] = Ok(NameSupplied(supplied[k].section.name))

ContentReadBack(k) ==
    /\ supplied[k].ret.ok
    /\ parsed.contents[supplied[k].ret.val + 1] = Ok(supplied[k].section.content)

\* C1 as stated: whatever was built on an ELF header template, the image write()
\* returned reads back with
\* the same ident/type/machine/entry, 2 + (number of add_section calls) section
\* headers, and for every added section the supplied name and content.
C1_RoundTrip_Original ==
    (parsed.tag # "None" /\ writer.header.ident.magic = ELFMAG) =>
        /\ HeaderReadBack
        /\ \A k \in DOMAIN supplied : NameReadBack(k) /\ ContentReadBack(k)

\* C1 amended: when the header template starts with the ELF magic, the image
\* reads back with the same header fields, section count and names; the content
\* read back is the supplied content for every section that is not SHT_NOBITS
\* and empty for a SHT_NOBITS section.  With any other magic ElfReader::new
\* fails with WrongMagic carrying the template's four bytes.
C1_RoundTrip ==
    parsed.tag # "None" =>
        IF writer.header.ident.magic = ELFMAG
        THEN /\ HeaderReadBack
             /\ \A k \in DOMAIN supplied :
                   /\ NameReadBack(k)
                   /\ supplied[k].section.type # SHT_NOBITS => ContentReadBack(k)
                   /\ supplied[k].section.type = SHT_NOBITS =>
                         parsed.contents[supplied[k].ret.val + 1] = Ok(<<>>)
        ELSE /\ parsed.tag = "Err"
             /\ parsed.err = <<"WrongMagic", writer.header.ident.magic>>

\* An image with the ELF magic was read back that carries an entry set by
\* set_entry, a named section with content behind padding, and a program header.
C1_Witness ==
    /\ parsed.tag = "Ok"
    /\ writer.header.entry = LE(BASE_EXEC_ADDR + DEFAULT_PAGE_ALIGN, 8)
    /\ writer.programs_headers # <<>>
    /\ \E k \in DOMAIN supplied :
          /\ supplied[k].section.name # 0
          /\ supplied[k].section.type = SHT_PROGBITS
          /\ supplied[k].section.addr_align = Some(8)
          /\ parsed.contents[supplied[k].ret.val + 1] = Ok(<<4, 5>>)

\* The sections of the writer that have content, by position (1-based).
NonEmpty == { i \in DOMAIN writer.sections : writer.sections[i].content # <<>> }

DeclaredAlign(i) ==
    IF writer.sections[i].addr_align.some THEN writer.sections[i].addr_align.val ELSE 1

\* C2: once write() has run, the offsets its layout computed give the sections
\* with content pairwise disjoint ranges at or after the end of the section
\* header table, each offset a multiple of the section's (power-of-two)
\* alignment, and a returned image is exactly as long as the last section's
\* offset plus its size.
C2_LayoutNonOverlap ==
    output.tag # "None" =>
        LET l == layout(writer)
            off(i) == l.section_content_offsets[i]
            size(i) == Len(writer.sections[i].content)
        IN /\ ~l.panic =>
                /\ \A i, j \in NonEmpty :
                      i # j => off(i) + size(i) <= off(j) \/ off(j) + size(j) <= off(i)
                /\ \A i \in NonEmpty :
                      /\ off(i) >= section_contents_offset(l)
                      /\ is_power_of_two(DeclaredAlign(i)) => off(i) % DeclaredAlign(i) = 0
           /\ output.tag = "Ok" =>
                /\ ~l.panic
                /\ Len(output.bytes) = off(Len(writer.sections)) + size(Len(writer.sections))

\* write() returned an image in which an 8-aligned section sits behind padding
\* after the name table.
C2_Witness ==
    /\ output.tag = "Ok"
    /\ \E i \in NonEmpty :
          /\ i > 2
          /\ DeclaredAlign(i) = 8
          /\ layout(writer).section_content_offsets[i]
               > layout(writer).section_content_offsets[2] + Len(writer.sections[2].content)

\* C3 as stated: with counts that fit 16 bits and program headers that name
\* existing section ordinals, write() returns an image: it neither fails nor
\* aborts on one of its assertions.
C3_WriteNeverAborts ==
    ( /\ output.tag # "None"
      /\ Len(writer.sections) <= U16_MAX
      /\ Len(writer.programs_headers) <= U16_MAX
      /\ \A i \in DOMAIN writer.programs_headers :
            writer.programs_headers[i].offset.section < Len(writer.sections) )
    => output.tag = "Ok"

-----------------------------------------------------------------------------
(* The input files of a link: relocatable objects as an assembler lays them   *)
(* out (tests/integration: Ctx::nasm), described by their sections and        *)
(* symbols and assembled into bytes.                                          *)

ET_REL == 1
SHN_ABS == 65521
STT_NOTYPE == 0
STT_SECTION == 3
STB_GLOBAL == 1

RECURSIVE Flatten(_)
Flatten(ss) == IF ss = <<>> THEN <<>> ELSE Head(ss) \o Flatten(Tail(ss))

\* A string table holding the non-empty names, and the index of its k-th name.
StrTabOf(names) ==
    <<0>> \o Flatten([k \in DOMAIN names |->
                        IF names[k] = <<>> THEN <<>> ELSE names[k] \o <<0>>])

StrIdxOf(names, k) ==
    IF names[k] = <<>> THEN 0 ELSE Len(StrTabOf(SubSeq(names, 1, k - 1)))

SymBytes(sym) ==
    LE(sym.name, 4) \o <<sym.info, sym.other>> \o LE(sym.shndx, 2)
    \o LE(sym.value, 8) \o LE(sym.size, 8)

DotText == <<46, 116, 101, 120, 116>>
DotData == <<46, 100, 97, 116, 97>>
DotBss == <<46, 98, 115, 115>>
DotSymtab == <<46, 115, 121, 109, 116, 97, 98>>
DotShstrtab == <<46, 115, 104, 115, 116, 114, 116, 97, 98>>
UnderscoreStart == <<95, 115, 116, 97, 114, 116>>
ExitName == <<101, 120, 105, 116>>

\* The sections of the object described by d, the null section first and the
\* section name table last.
ObjSections(d) ==
    LET symnames == [k \in DOMAIN d.syms |-> d.syms[k].name]
        symtab ==
          [ name |-> DotSymtab, type |-> SHT_SYMTAB, addralign |-> 8,
            entsize |-> SizeOfSym,
            content |-> Flatten([k \in DOMAIN d.syms |->
                          SymBytes([ name |-> StrIdxOf(symnames, k),
                                     info |-> d.syms[k].binding * 16 + d.syms[k].type,
                                     other |-> 0, shndx |-> d.syms[k].shndx,
                                     value |-> d.syms[k].value,
                                     size |-> d.syms[k].size ])]) ]
        strtab ==
          [ name |-> DotStrtab, type |-> SHT_STRTAB, addralign |-> 1, entsize |-> 0,
            content |-> StrTabOf(symnames) ]
        body == [k \in DOMAIN d.sections |->
                   [ name |-> d.sections[k].name, type |-> d.sections[k].type,
                     addralign |-> d.sections[k].addralign, entsize |-> 0,
                     content |-> d.sections[k].content ]]
        named == body \o (IF d.symtab THEN <<symtab>> ELSE <<>>) \o <<strtab>>
        allnames == [k \in DOMAIN named |-> named[k].name] \o <<DotShstrtab>>
        shstrtab ==
          [ name |-> DotShstrtab, type |-> SHT_STRTAB, addralign |-> 1, entsize |-> 0,
            content |-> StrTabOf(allnames) ]
        all == named \o <<shstrtab>>
    IN [k \in DOMAIN all |-> [all[k] EXCEPT !.name = StrIdxOf(allnames, k)]]

\* File offsets of the contents of secs from cursor on, each at a multiple of 8.
RECURSIVE ObjOffsets(_, _, _)
ObjOffsets(secs, i, cursor) ==
    IF i > Len(secs) THEN <<>>
    ELSE LET at == ((cursor + 7) \div 8) * 8
         IN <<at>> \o ObjOffsets(secs, i + 1, at + Len(secs[i].content))

RECURSIVE ObjContents(_, _, _, _)
ObjContents(secs, offs, i, out) ==
    IF i > Len(secs) THEN out
    ELSE ObjContents(secs, offs, i + 1,
                     out \o Zeros(offs[i] - Len(out)) \o secs[i].content)

\* The bytes of the object file described by d.
ObjectFile(d) ==
    LET secs == ObjSections(d)
        shnum == Len(secs) + 1
        offs == ObjOffsets(secs, 1, SizeOfElfHeader + shnum * SizeOfShdr)
        hdr == [ ident |-> Ident(d.magic), type |-> ET_REL, machine |-> EM_X86_64,
                 version |-> 1, entry |-> Zeros(8), phoff |-> 0,
                 shoff |-> SizeOfElfHeader, flags |-> Zeros(4),
                 ehsize |-> SizeOfElfHeader, phentsize |-> 0, phnum |-> 0,
                 shentsize |-> SizeOfShdr, shnum |-> shnum, shstrndex |-> shnum - 1 ]
        shdr(k) == [ name |-> secs[k].name, type |-> secs[k].type,
                     flags |-> 0, addr |-> 0, offset |-> offs[k],
                     size |-> IF secs[k].type = SHT_NOBITS
                              THEN d.sections[k].size ELSE Len(secs[k].content),
                     link |-> 0, info |-> 0, addralign |-> secs[k].addralign,
                     entsize |-> secs[k].entsize ]
    IN ObjContents(secs, offs, 1,
          ElfHeaderBytes(hdr) \o ShdrBytes(ParseShdr(Zeros(SizeOfShdr)))
          \o Flatten([k \in DOMAIN secs |-> ShdrBytes(shdr(k))]))

\* Symbols as the assembler emits them.
NullSym == [ name |-> <<>>, type |-> STT_NOTYPE, binding |-> 0, shndx |-> SHN_UNDEF,
             value |-> 0, size |-> 0 ]
SectionSym(shndx) ==
    [ name |-> <<>>, type |-> STT_SECTION, binding |-> 0, shndx |-> shndx,
      value |-> 0, size |-> 0 ]
Defined(name, shndx, value) ==
    [ name |-> name, type |-> STT_NOTYPE, binding |-> STB_GLOBAL, shndx |-> shndx,
      value |-> value, size |-> 0 ]
Undefined(name) ==
    [ name |-> name, type |-> STT_NOTYPE, binding |-> STB_GLOBAL, shndx |-> SHN_UNDEF,
      value |-> 0, size |-> 0 ]

TextSection(content) ==
    [ name |-> DotText, type |-> SHT_PROGBITS, addralign |-> 16, content |-> content ]

DataSection(content, addralign) ==
    [ name |-> DotData, type |-> SHT_PROGBITS, addralign |-> addralign,
      content |-> content ]

\* A section that takes no room in the file: size bytes of zeroes when loaded.
BssSection(size, addralign) ==
    [ name |-> DotBss, type |-> SHT_NOBITS, addralign |-> addralign,
      content |-> <<>>, size |-> size ]

\* The object files a link is given, by what they describe:
\*  1 start:   .text; defines _start at 0, refers to exit
\*  2 exit:    .text; defines exit at 0
\*  3 start2:  .text; a section symbol; defines _start at 2
\*  4 refs:    .text; refers to _start and exit, defines nothing
\*  5 nosyms:  .text; no symbol table
\*  6 notext:  no .text; defines exit as an absolute symbol
\*  7 notelf:  the bytes of start with another magic
\*  8 missing: cannot be opened
\*  9 data:    .data only; no symbols but the null symbol
\* 10 full:    .text, .data and .bss; defines _start at 1
\* 11 unaligned: .data only, with sh_addralign 0; no symbols but the null symbol
ObjDescs ==
    << [ readable |-> TRUE, magic |-> ELFMAG, symtab |-> TRUE,
         sections |-> <<TextSection(<<232, 0, 0, 0, 0>>)>>,
         syms |-> <<NullSym, Defined(UnderscoreStart, 1, 0), Undefined(ExitName)>> ],
       [ readable |-> TRUE, magic |-> ELFMAG, symtab |-> TRUE,
         sections |-> <<TextSection(<<15, 5>>)>>,
         syms |-> <<NullSym, Defined(ExitName, 1, 0)>> ],
       [ readable |-> TRUE, magic |-> ELFMAG, symtab |-> TRUE,
         sections |-> <<TextSection(<<144, 144, 15, 5>>)>>,
         syms |-> <<NullSym, SectionSym(1), Defined(UnderscoreStart, 1, 2)>> ],
       [ readable |-> TRUE, magic |-> ELFMAG, symtab |-> TRUE,
         sections |-> <<TextSection(<<144>>)>>,
         syms |-> <<NullSym, Undefined(UnderscoreStart), Undefined(ExitName)>> ],
       [ readable |-> TRUE, magic |-> ELFMAG, symtab |-> FALSE,
         sections |-> <<TextSection(<<144>>)>>,
         syms |-> <<>> ],
       [ readable |-> TRUE, magic |-> ELFMAG, symtab |-> TRUE,
         sections |-> <<>>,
         syms |-> <<NullSym, Defined(ExitName, SHN_ABS, 7)>> ],
       [ readable |-> TRUE, magic |-> <<127, 69, 76, 71>>, symtab |-> TRUE,
         sections |-> <<TextSection(<<232, 0, 0, 0, 0>>)>>,
         syms |-> <<NullSym, Defined(UnderscoreStart, 1, 0), Undefined(ExitName)>> ],
       [ readable |-> FALSE, magic |-> ELFMAG, symtab |-> FALSE,
         sections |-> <<>>, syms |-> <<>> ],
       [ readable |-> TRUE, magic |-> ELFMAG, symtab |-> TRUE,
         sections |-> <<DataSection(<<1, 2, 3>>, 4)>>,
         syms |-> <<NullSym>> ],
       [ readable |-> TRUE, magic |-> ELFMAG, symtab |-> TRUE,
         sections |-> <<TextSection(<<144, 15, 5>>), DataSection(<<9>>, 8),
                        BssSection(8, 4)>>,
         syms |-> <<NullSym, Defined(UnderscoreStart, 1, 1)>> ],
       [ readable |-> TRUE, magic |-> ELFMAG, symtab |-> TRUE,
         sections |-> <<DataSection(<<7>>, 0)>>,
         syms |-> <<NullSym>> ] >>

\* The files on disk: the bytes of each described object, written out.
Disk ==
    <<
       <<
          127, 69, 76, 70, 2, 1, 1, 0, 0, 0, 0, 0, 0, 0, 0, 0, 1, 0, 62, 0, 1, 0, 0, 0,
          0, 0, 0, 0, 0, 0, 0, 0, 0, 0, 0, 0, 0, 0, 0, 0, 64, 0, 0, 0, 0, 0, 0, 0,
          0, 0, 0, 0, 64, 0, 0, 0, 0, 0, 64, 0, 5, 0, 4, 0, 0, 0, 0, 0, 0, 0, 0, 0,
          0, 0, 0, 0, 0, 0, 0, 0, 0, 0, 0, 0, 0, 0, 0, 0, 0, 0, 0, 0, 0, 0, 0, 0,
          0, 0, 0, 0, 0, 0, 0, 0, 0, 0, 0, 0, 0, 0, 0, 0, 0, 0, 0, 0, 0, 0, 0, 0,
          0, 0, 0, 0, 0, 0, 0, 0, 1, 0, 0, 0, 1, 0, 0, 0, 0, 0, 0, 0, 0, 0, 0, 0,
          0, 0, 0, 0, 0, 0, 0, 0, 128, 1, 0, 0, 0, 0, 0, 0, 5, 0, 0, 0, 0, 0, 0, 0,
          0, 0, 0, 0, 0, 0, 0, 0, 16, 0, 0, 0, 0, 0, 0, 0, 0, 0, 0, 0, 0, 0, 0, 0,
          7, 0, 0, 0, 2, 0, 0, 0, 0, 0, 0, 0, 0, 0, 0, 0, 0, 0, 0, 0, 0, 0, 0, 0,
          136, 1, 0, 0, 0, 0, 0, 0, 72, 0, 0, 0, 0, 0, 0, 0, 0, 0, 0, 0, 0, 0, 0, 0,
          8, 0, 0, 0, 0, 0, 0, 0, 24, 0, 0, 0, 0, 0, 0, 0, 15, 0, 0, 0, 3, 0, 0, 0,
          0, 0, 0, 0, 0, 0, 0, 0, 0, 0, 0, 0, 0, 0, 0, 0, 208, 1, 0, 0, 0, 0, 0, 0,
          13, 0, 0, 0, 0, 0, 0, 0, 0, 0, 0, 0, 0, 0, 0, 0, 1, 0, 0, 0, 0, 0, 0, 0,
          0, 0, 0, 0, 0, 0, 0, 0, 23, 0, 0, 0, 3, 0, 0, 0, 0, 0, 0, 0, 0, 0, 0, 0,
          0, 0, 0, 0, 0, 0, 0, 0, 224, 1, 0, 0, 0, 0, 0, 0, 33, 0, 0, 0, 0, 0, 0, 0,
          0, 0, 0, 0, 0, 0, 0, 0, 1, 0, 0, 0, 0, 0, 0, 0, 0, 0, 0, 0, 0, 0, 0, 0,
          232, 0, 0, 0, 0, 0, 0, 0, 0, 0, 0, 0, 0, 0, 0, 0, 0, 0, 0, 0, 0, 0, 0, 0,
          0, 0, 0, 0, 0, 0, 0, 0, 1, 0, 0, 0, 16, 0, 1, 0, 0, 0, 0, 0, 0, 0, 0, 0,
          0, 0, 0, 0, 0, 0, 0, 0, 8, 0, 0, 0, 16, 0, 0, 0, 0, 0, 0, 0, 0, 0, 0, 0,
          0, 0, 0, 0, 0, 0, 0, 0, 0, 95, 115, 116, 97, 114, 116, 0, 101, 120, 105, 116, 0, 0, 0, 0,
          0, 46, 116, 101, 120, 116, 0, 46, 115, 121, 109, 116, 97, 98, 0, 46, 115, 116, 114, 116, 97, 98, 0, 46,
          115, 104, 115, 116, 114, 116, 97, 98, 0
       >>,
       <<
          127, 69, 76, 70, 2, 1, 1, 0, 0, 0, 0, 0, 0, 0, 0, 0, 1, 0, 62, 0, 1, 0, 0, 0,
          0, 0, 0, 0, 0, 0, 0, 0, 0, 0, 0, 0, 0, 0, 0, 0, 64, 0, 0, 0, 0, 0, 0, 0,
          0, 0, 0, 0, 64, 0, 0, 0, 0, 0, 64, 0, 5, 0, 4, 0, 0, 0, 0, 0, 0, 0, 0, 0,
          0, 0, 0, 0, 0, 0, 0, 0, 0, 0, 0, 0, 0, 0, 0, 0, 0, 0, 0, 0, 0, 0, 0, 0,
          0, 0, 0, 0, 0, 0, 0, 0, 0, 0, 0, 0, 0, 0, 0, 0, 0, 0, 0, 0, 0, 0, 0, 0,
          0, 0, 0, 0, 0, 0, 0, 0, 1, 0, 0, 0, 1, 0, 0, 0, 0, 0, 0, 0, 0, 0, 0, 0,
          0, 0, 0, 0, 0, 0, 0, 0, 128, 1, 0, 0, 0, 0, 0, 0, 2, 0, 0, 0, 0, 0, 0, 0,
          0, 0, 0, 0, 0, 0, 0, 0, 16, 0, 0, 0, 0, 0, 0, 0, 0, 0, 0, 0, 0, 0, 0, 0,
          7, 0, 0, 0, 2, 0, 0, 0, 0, 0, 0, 0, 0, 0, 0, 0, 0, 0, 0, 0, 0, 0, 0, 0,
          136, 1, 0, 0, 0, 0, 0, 0, 48, 0, 0, 0, 0, 0, 0, 0, 0, 0, 0, 0, 0, 0, 0, 0,
          8, 0, 0, 0, 0, 0, 0, 0, 24, 0, 0, 0, 0, 0, 0, 0, 15, 0, 0, 0, 3, 0, 0, 0,
          0, 0, 0, 0, 0, 0, 0, 0, 0, 0, 0, 0, 0, 0, 0, 0, 184, 1, 0, 0, 0, 0, 0, 0,
          6, 0, 0, 0, 0, 0, 0, 0, 0, 0, 0, 0, 0, 0, 0, 0, 1, 0, 0, 0, 0, 0, 0, 0,
          0, 0, 0, 0, 0, 0, 0, 0, 23, 0, 0, 0, 3, 0, 0, 0, 0, 0, 0, 0, 0, 0, 0, 0,
          0, 0, 0, 0, 0, 0, 0, 0, 192, 1, 0, 0, 0, 0, 0, 0, 33, 0, 0, 0, 0, 0, 0, 0,
          0, 0, 0, 0, 0, 0, 0, 0, 1, 0, 0, 0, 0, 0, 0, 0, 0, 0, 0, 0, 0, 0, 0, 0,
          15, 5, 0, 0, 0, 0, 0, 0, 0, 0, 0, 0, 0, 0, 0, 0, 0, 0, 0, 0, 0, 0, 0, 0,
          0, 0, 0, 0, 0, 0, 0, 0, 1, 0, 0, 0, 16, 0, 1, 0, 0, 0, 0, 0, 0, 0, 0, 0,
          0, 0, 0, 0, 0, 0, 0, 0, 0, 101, 120, 105, 116, 0, 0, 0, 0, 46, 116, 101, 120, 116, 0, 46,
          115, 121, 109, 116, 97, 98, 0, 46, 115, 116, 114, 116, 97, 98, 0, 46, 115, 104, 115, 116, 114, 116, 97, 98,
          0
       >>,
       <<
          127, 69, 76, 70, 2, 1, 1, 0, 0, 0, 0, 0, 0, 0, 0, 0, 1, 0, 62, 0, 1, 0, 0, 0,
          0, 0, 0, 0, 0, 0, 0, 0, 0, 0, 0, 0, 0, 0, 0, 0, 64, 0, 0, 0, 0, 0, 0, 0,
          0, 0, 0, 0, 64, 0, 0, 0, 0, 0, 64, 0, 5, 0, 4, 0, 0, 0, 0, 0, 0, 0, 0, 0,
          0, 0, 0, 0, 0, 0, 0, 0, 0, 0, 0, 0, 0, 0, 0, 0, 0, 0, 0, 0, 0, 0, 0, 0,
          0, 0, 0, 0, 0, 0, 0, 0, 0, 0, 0, 0, 0, 0, 0, 0, 0, 0, 0, 0, 0, 0, 0, 0,
          0, 0, 0, 0, 0, 0, 0, 0, 1, 0, 0, 0, 1, 0, 0, 0, 0, 0, 0, 0, 0, 0, 0, 0,
          0, 0, 0, 0, 0, 0, 0, 0, 128, 1, 0, 0, 0, 0, 0, 0, 4, 0, 0, 0, 0, 0, 0, 0,
          0, 0, 0, 0, 0, 0, 0, 0, 16, 0, 0, 0, 0, 0, 0, 0, 0, 0, 0, 0, 0, 0, 0, 0,
          7, 0, 0, 0, 2, 0, 0, 0, 0, 0, 0, 0, 0, 0, 0, 0, 0, 0, 0, 0, 0, 0, 0, 0,
          136, 1, 0, 0, 0, 0, 0, 0, 72, 0, 0, 0, 0, 0, 0, 0, 0, 0, 0, 0, 0, 0, 0, 0,
          8, 0, 0, 0, 0, 0, 0, 0, 24, 0, 0, 0, 0, 0, 0, 0, 15, 0, 0, 0, 3, 0, 0, 0,
          0, 0, 0, 0, 0, 0, 0, 0, 0, 0, 0, 0, 0, 0, 0, 0, 208, 1, 0, 0, 0, 0, 0, 0,
          8, 0, 0, 0, 0, 0, 0, 0, 0, 0, 0, 0, 0, 0, 0, 0, 1, 0, 0, 0, 0, 0, 0, 0,
          0, 0, 0, 0, 0, 0, 0, 0, 23, 0, 0, 0, 3, 0, 0, 0, 0, 0, 0, 0, 0, 0, 0, 0,
          0, 0, 0, 0, 0, 0, 0, 0, 216, 1, 0, 0, 0, 0, 0, 0, 33, 0, 0, 0, 0, 0, 0, 0,
          0, 0, 0, 0, 0, 0, 0, 0, 1, 0, 0, 0, 0, 0, 0, 0, 0, 0, 0, 0, 0, 0, 0, 0,
          144, 144, 15, 5, 0, 0, 0, 0, 0, 0, 0, 0, 0, 0, 0, 0, 0, 0, 0, 0, 0, 0, 0, 0,
          0, 0, 0, 0, 0, 0, 0, 0, 0, 0, 0, 0, 3, 0, 1, 0, 0, 0, 0, 0, 0, 0, 0, 0,
          0, 0, 0, 0, 0, 0, 0, 0, 1, 0, 0, 0, 16, 0, 1, 0, 2, 0, 0, 0, 0, 0, 0, 0,
          0, 0, 0, 0, 0, 0, 0, 0, 0, 95, 115, 116, 97, 114, 116, 0, 0, 46, 116, 101, 120, 116, 0, 46,
          115, 121, 109, 116, 97, 98, 0, 46, 115, 116, 114, 116, 97, 98, 0, 46, 115, 104, 115, 116, 114, 116, 97, 98,
          0
       >>,
       <<
          127, 69, 76, 70, 2, 1, 1, 0, 0, 0, 0, 0, 0, 0, 0, 0, 1, 0, 62, 0, 1, 0, 0, 0,
          0, 0, 0, 0, 0, 0, 0, 0, 0, 0, 0, 0, 0, 0, 0, 0, 64, 0, 0, 0, 0, 0, 0, 0,
          0, 0, 0, 0, 64, 0, 0, 0, 0, 0, 64, 0, 5, 0, 4, 0, 0, 0, 0, 0, 0, 0, 0, 0,
          0, 0, 0, 0, 0, 0, 0, 0, 0, 0, 0, 0, 0, 0, 0, 0, 0, 0, 0, 0, 0, 0, 0, 0,
          0, 0, 0, 0, 0, 0, 0, 0, 0, 0, 0, 0, 0, 0, 0, 0, 0, 0, 0, 0, 0, 0, 0, 0,
          0, 0, 0, 0, 0, 0, 0, 0, 1, 0, 0, 0, 1, 0, 0, 0, 0, 0, 0, 0, 0, 0, 0, 0,
          0, 0, 0, 0, 0, 0, 0, 0, 128, 1, 0, 0, 0, 0, 0, 0, 1, 0, 0, 0, 0, 0, 0, 0,
          0, 0, 0, 0, 0, 0, 0, 0, 16, 0, 0, 0, 0, 0, 0, 0, 0, 0, 0, 0, 0, 0, 0, 0,
          7, 0, 0, 0, 2, 0, 0, 0, 0, 0, 0, 0, 0, 0, 0, 0, 0, 0, 0, 0, 0, 0, 0, 0,
          136, 1, 0, 0, 0, 0, 0, 0, 72, 0, 0, 0, 0, 0, 0, 0, 0, 0, 0, 0, 0, 0, 0, 0,
          8, 0, 0, 0, 0, 0, 0, 0, 24, 0, 0, 0, 0, 0, 0, 0, 15, 0, 0, 0, 3, 0, 0, 0,
          0, 0, 0, 0, 0, 0, 0, 0, 0, 0, 0, 0, 0, 0, 0, 0, 208, 1, 0, 0, 0, 0, 0, 0,
          13, 0, 0, 0, 0, 0, 0, 0, 0, 0, 0, 0, 0, 0, 0, 0, 1, 0, 0, 0, 0, 0, 0, 0,
          0, 0, 0, 0, 0, 0, 0, 0, 23, 0, 0, 0, 3, 0, 0, 0, 0, 0, 0, 0, 0, 0, 0, 0,
          0, 0, 0, 0, 0, 0, 0, 0, 224, 1, 0, 0, 0, 0, 0, 0, 33, 0, 0, 0, 0, 0, 0, 0,
          0, 0, 0, 0, 0, 0, 0, 0, 1, 0, 0, 0, 0, 0, 0, 0, 0, 0, 0, 0, 0, 0, 0, 0,
          144, 0, 0, 0, 0, 0, 0, 0, 0, 0, 0, 0, 0, 0, 0, 0, 0, 0, 0, 0, 0, 0, 0, 0,
          0, 0, 0, 0, 0, 0, 0, 0, 1, 0, 0, 0, 16, 0, 0, 0, 0, 0, 0, 0, 0, 0, 0, 0,
          0, 0, 0, 0, 0, 0, 0, 0, 8, 0, 0, 0, 16, 0, 0, 0, 0, 0, 0, 0, 0, 0, 0, 0,
          0, 0, 0, 0, 0, 0, 0, 0, 0, 95, 115, 116, 97, 114, 116, 0, 101, 120, 105, 116, 0, 0, 0, 0,
          0, 46, 116, 101, 120, 116, 0, 46, 115, 121, 109, 116, 97, 98, 0, 46, 115, 116, 114, 116, 97, 98, 0, 46,
          115, 104, 115, 116, 114, 116, 97, 98, 0
       >>,
       <<
          127, 69, 76, 70, 2, 1, 1, 0, 0, 0, 0, 0, 0, 0, 0, 0, 1, 0, 62, 0, 1, 0, 0, 0,
          0, 0, 0, 0, 0, 0, 0, 0, 0, 0, 0, 0, 0, 0, 0, 0, 64, 0, 0, 0, 0, 0, 0, 0,
          0, 0, 0, 0, 64, 0, 0, 0, 0, 0, 64, 0, 4, 0, 3, 0, 0, 0, 0, 0, 0, 0, 0, 0,
          0, 0, 0, 0, 0, 0, 0, 0, 0, 0, 0, 0, 0, 0, 0, 0, 0, 0, 0, 0, 0, 0, 0, 0,
          0, 0, 0, 0, 0, 0, 0, 0, 0, 0, 0, 0, 0, 0, 0, 0, 0, 0, 0, 0, 0, 0, 0, 0,
          0, 0, 0, 0, 0, 0, 0, 0, 1, 0, 0, 0, 1, 0, 0, 0, 0, 0, 0, 0, 0, 0, 0, 0,
          0, 0, 0, 0, 0, 0, 0, 0, 64, 1, 0, 0, 0, 0, 0, 0, 1, 0, 0, 0, 0, 0, 0, 0,
          0, 0, 0, 0, 0, 0, 0, 0, 16, 0, 0, 0, 0, 0, 0, 0, 0, 0, 0, 0, 0, 0, 0, 0,
          7, 0, 0, 0, 3, 0, 0, 0, 0, 0, 0, 0, 0, 0, 0, 0, 0, 0, 0, 0, 0, 0, 0, 0,
          72, 1, 0, 0, 0, 0, 0, 0, 1, 0, 0, 0, 0, 0, 0, 0, 0, 0, 0, 0, 0, 0, 0, 0,
          1, 0, 0, 0, 0, 0, 0, 0, 0, 0, 0, 0, 0, 0, 0, 0, 15, 0, 0, 0, 3, 0, 0, 0,
          0, 0, 0, 0, 0, 0, 0, 0, 0, 0, 0, 0, 0, 0, 0, 0, 80, 1, 0, 0, 0, 0, 0, 0,
          25, 0, 0, 0, 0, 0, 0, 0, 0, 0, 0, 0, 0, 0, 0, 0, 1, 0, 0, 0, 0, 0, 0, 0,
          0, 0, 0, 0, 0, 0, 0, 0, 144, 0, 0, 0, 0, 0, 0, 0, 0, 0, 0, 0, 0, 0, 0, 0,
          0, 46, 116, 101, 120, 116, 0, 46, 115, 116, 114, 116, 97, 98, 0, 46, 115, 104, 115, 116, 114, 116, 97, 98,
          0
       >>,
       <<
          127, 69, 76, 70, 2, 1, 1, 0, 0, 0, 0, 0, 0, 0, 0, 0, 1, 0, 62, 0, 1, 0, 0, 0,
          0, 0, 0, 0, 0, 0, 0, 0, 0, 0, 0, 0, 0, 0, 0, 0, 64, 0, 0, 0, 0, 0, 0, 0,
          0, 0, 0, 0, 64, 0, 0, 0, 0, 0, 64, 0, 4, 0, 3, 0, 0, 0, 0, 0, 0, 0, 0, 0,
          0, 0, 0, 0, 0, 0, 0, 0, 0, 0, 0, 0, 0, 0, 0, 0, 0, 0, 0, 0, 0, 0, 0, 0,
          0, 0, 0, 0, 0, 0, 0, 0, 0, 0, 0, 0, 0, 0, 0, 0, 0, 0, 0, 0, 0, 0, 0, 0,
          0, 0, 0, 0, 0, 0, 0, 0, 1, 0, 0, 0, 2, 0, 0, 0, 0, 0, 0, 0, 0, 0, 0, 0,
          0, 0, 0, 0, 0, 0, 0, 0, 64, 1, 0, 0, 0, 0, 0, 0, 48, 0, 0, 0, 0, 0, 0, 0,
          0, 0, 0, 0, 0, 0, 0, 0, 8, 0, 0, 0, 0, 0, 0, 0, 24, 0, 0, 0, 0, 0, 0, 0,
          9, 0, 0, 0, 3, 0, 0, 0, 0, 0, 0, 0, 0, 0, 0, 0, 0, 0, 0, 0, 0, 0, 0, 0,
          112, 1, 0, 0, 0, 0, 0, 0, 6, 0, 0, 0, 0, 0, 0, 0, 0, 0, 0, 0, 0, 0, 0, 0,
          1, 0, 0, 0, 0, 0, 0, 0, 0, 0, 0, 0, 0, 0, 0, 0, 17, 0, 0, 0, 3, 0, 0, 0,
          0, 0, 0, 0, 0, 0, 0, 0, 0, 0, 0, 0, 0, 0, 0, 0, 120, 1, 0, 0, 0, 0, 0, 0,
          27, 0, 0, 0, 0, 0, 0, 0, 0, 0, 0, 0, 0, 0, 0, 0, 1, 0, 0, 0, 0, 0, 0, 0,
          0, 0, 0, 0, 0, 0, 0, 0, 0, 0, 0, 0, 0, 0, 0, 0, 0, 0, 0, 0, 0, 0, 0, 0,
          0, 0, 0, 0, 0, 0, 0, 0, 1, 0, 0, 0, 16, 0, 241, 255, 7, 0, 0, 0, 0, 0, 0, 0,
          0, 0, 0, 0, 0, 0, 0, 0, 0, 101, 120, 105, 116, 0, 0, 0, 0, 46, 115, 121, 109, 116, 97, 98,
          0, 46, 115, 116, 114, 116, 97, 98, 0, 46, 115, 104, 115, 116, 114, 116, 97, 98, 0
       >>,
       <<
          127, 69, 76, 71, 2, 1, 1, 0, 0, 0, 0, 0, 0, 0, 0, 0, 1, 0, 62, 0, 1, 0, 0, 0,
          0, 0, 0, 0, 0, 0, 0, 0, 0, 0, 0, 0, 0, 0, 0, 0, 64, 0, 0, 0, 0, 0, 0, 0,
          0, 0, 0, 0, 64, 0, 0, 0, 0, 0, 64, 0, 5, 0, 4, 0, 0, 0, 0, 0, 0, 0, 0, 0,
          0, 0, 0, 0, 0, 0, 0, 0, 0, 0, 0, 0, 0, 0, 0, 0, 0, 0, 0, 0, 0, 0, 0, 0,
          0, 0, 0, 0, 0, 0, 0, 0, 0, 0, 0, 0, 0, 0, 0, 0, 0, 0, 0, 0, 0, 0, 0, 0,
          0, 0, 0, 0, 0, 0, 0, 0, 1, 0, 0, 0, 1, 0, 0, 0, 0, 0, 0, 0, 0, 0, 0, 0,
          0, 0, 0, 0, 0, 0, 0, 0, 128, 1, 0, 0, 0, 0, 0, 0, 5, 0, 0, 0, 0, 0, 0, 0,
          0, 0, 0, 0, 0, 0, 0, 0, 16, 0, 0, 0, 0, 0, 0, 0, 0, 0, 0, 0, 0, 0, 0, 0,
          7, 0, 0, 0, 2, 0, 0, 0, 0, 0, 0, 0, 0, 0, 0, 0, 0, 0, 0, 0, 0, 0, 0, 0,
          136, 1, 0, 0, 0, 0, 0, 0, 72, 0, 0, 0, 0, 0, 0, 0, 0, 0, 0, 0, 0, 0, 0, 0,
          8, 0, 0, 0, 0, 0, 0, 0, 24, 0, 0, 0, 0, 0, 0, 0, 15, 0, 0, 0, 3, 0, 0, 0,
          0, 0, 0, 0, 0, 0, 0, 0, 0, 0, 0, 0, 0, 0, 0, 0, 208, 1, 0, 0, 0, 0, 0, 0,
          13, 0, 0, 0, 0, 0, 0, 0, 0, 0, 0, 0, 0, 0, 0, 0, 1, 0, 0, 0, 0, 0, 0, 0,
          0, 0, 0, 0, 0, 0, 0, 0, 23, 0, 0, 0, 3, 0, 0, 0, 0, 0, 0, 0, 0, 0, 0, 0,
          0, 0, 0, 0, 0, 0, 0, 0, 224, 1, 0, 0, 0, 0, 0, 0, 33, 0, 0, 0, 0, 0, 0, 0,
          0, 0, 0, 0, 0, 0, 0, 0, 1, 0, 0, 0, 0, 0, 0, 0, 0, 0, 0, 0, 0, 0, 0, 0,
          232, 0, 0, 0, 0, 0, 0, 0, 0, 0, 0, 0, 0, 0, 0, 0, 0, 0, 0, 0, 0, 0, 0, 0,
          0, 0, 0, 0, 0, 0, 0, 0, 1, 0, 0, 0, 16, 0, 1, 0, 0, 0, 0, 0, 0, 0, 0, 0,
          0, 0, 0, 0, 0, 0, 0, 0, 8, 0, 0, 0, 16, 0, 0, 0, 0, 0, 0, 0, 0, 0, 0, 0,
          0, 0, 0, 0, 0, 0, 0, 0, 0, 95, 115, 116, 97, 114, 116, 0, 101, 120, 105, 116, 0, 0, 0, 0,
          0, 46, 116, 101, 120, 116, 0, 46, 115, 121, 109, 116, 97, 98, 0, 46, 115, 116, 114, 116, 97, 98, 0, 46,
          115, 104, 115, 116, 114, 116, 97, 98, 0
       >>,
       <<
       >>,
       <<
          127, 69, 76, 70, 2, 1, 1, 0, 0, 0, 0, 0, 0, 0, 0, 0, 1, 0, 62, 0, 1, 0, 0, 0,
          0, 0, 0, 0, 0, 0, 0, 0, 0, 0, 0, 0, 0, 0, 0, 0, 64, 0, 0, 0, 0, 0, 0, 0,
          0, 0, 0, 0, 64, 0, 0, 0, 0, 0, 64, 0, 5, 0, 4, 0, 0, 0, 0, 0, 0, 0, 0, 0,
          0, 0, 0, 0, 0, 0, 0, 0, 0, 0, 0, 0, 0, 0, 0, 0, 0, 0, 0, 0, 0, 0, 0, 0,
          0, 0, 0, 0, 0, 0, 0, 0, 0, 0, 0, 0, 0, 0, 0, 0, 0, 0, 0, 0, 0, 0, 0, 0,
          0, 0, 0, 0, 0, 0, 0, 0, 1, 0, 0, 0, 1, 0, 0, 0, 0, 0, 0, 0, 0, 0, 0, 0,
          0, 0, 0, 0, 0, 0, 0, 0, 128, 1, 0, 0, 0, 0, 0, 0, 3, 0, 0, 0, 0, 0, 0, 0,
          0, 0, 0, 0, 0, 0, 0, 0, 4, 0, 0, 0, 0, 0, 0, 0, 0, 0, 0, 0, 0, 0, 0, 0,
          7, 0, 0, 0, 2, 0, 0, 0, 0, 0, 0, 0, 0, 0, 0, 0, 0, 0, 0, 0, 0, 0, 0, 0,
          136, 1, 0, 0, 0, 0, 0, 0, 24, 0, 0, 0, 0, 0, 0, 0, 0, 0, 0, 0, 0, 0, 0, 0,
          8, 0, 0, 0, 0, 0, 0, 0, 24, 0, 0, 0, 0, 0, 0, 0, 15, 0, 0, 0, 3, 0, 0, 0,
          0, 0, 0, 0, 0, 0, 0, 0, 0, 0, 0, 0, 0, 0, 0, 0, 160, 1, 0, 0, 0, 0, 0, 0,
          1, 0, 0, 0, 0, 0, 0, 0, 0, 0, 0, 0, 0, 0, 0, 0, 1, 0, 0, 0, 0, 0, 0, 0,
          0, 0, 0, 0, 0, 0, 0, 0, 23, 0, 0, 0, 3, 0, 0, 0, 0, 0, 0, 0, 0, 0, 0, 0,
          0, 0, 0, 0, 0, 0, 0, 0, 168, 1, 0, 0, 0, 0, 0, 0, 33, 0, 0, 0, 0, 0, 0, 0,
          0, 0, 0, 0, 0, 0, 0, 0, 1, 0, 0, 0, 0, 0, 0, 0, 0, 0, 0, 0, 0, 0, 0, 0,
          1, 2, 3, 0, 0, 0, 0, 0, 0, 0, 0, 0, 0, 0, 0, 0, 0, 0, 0, 0, 0, 0, 0, 0,
          0, 0, 0, 0, 0, 0, 0, 0, 0, 0, 0, 0, 0, 0, 0, 0, 0, 46, 100, 97, 116, 97, 0, 46,
          115, 121, 109, 116, 97, 98, 0, 46, 115, 116, 114, 116, 97, 98, 0, 46, 115, 104, 115, 116, 114, 116, 97, 98,
          0
       >>,
       <<
          127, 69, 76, 70, 2, 1, 1, 0, 0, 0, 0, 0, 0, 0, 0, 0, 1, 0, 62, 0, 1, 0, 0, 0,
          0, 0, 0, 0, 0, 0, 0, 0, 0, 0, 0, 0, 0, 0, 0, 0, 64, 0, 0, 0, 0, 0, 0, 0,
          0, 0, 0, 0, 64, 0, 0, 0, 0, 0, 64, 0, 7, 0, 6, 0, 0, 0, 0, 0, 0, 0, 0, 0,
          0, 0, 0, 0, 0, 0, 0, 0, 0, 0, 0, 0, 0, 0, 0, 0, 0, 0, 0, 0, 0, 0, 0, 0,
          0, 0, 0, 0, 0, 0, 0, 0, 0, 0, 0, 0, 0, 0, 0, 0, 0, 0, 0, 0, 0, 0, 0, 0,
          0, 0, 0, 0, 0, 0, 0, 0, 1, 0, 0, 0, 1, 0, 0, 0, 0, 0, 0, 0, 0, 0, 0, 0,
          0, 0, 0, 0, 0, 0, 0, 0, 0, 2, 0, 0, 0, 0, 0, 0, 3, 0, 0, 0, 0, 0, 0, 0,
          0, 0, 0, 0, 0, 0, 0, 0, 16, 0, 0, 0, 0, 0, 0, 0, 0, 0, 0, 0, 0, 0, 0, 0,
          7, 0, 0, 0, 1, 0, 0, 0, 0, 0, 0, 0, 0, 0, 0, 0, 0, 0, 0, 0, 0, 0, 0, 0,
          8, 2, 0, 0, 0, 0, 0, 0, 1, 0, 0, 0, 0, 0, 0, 0, 0, 0, 0, 0, 0, 0, 0, 0,
          8, 0, 0, 0, 0, 0, 0, 0, 0, 0, 0, 0, 0, 0, 0, 0, 13, 0, 0, 0, 8, 0, 0, 0,
          0, 0, 0, 0, 0, 0, 0, 0, 0, 0, 0, 0, 0, 0, 0, 0, 16, 2, 0, 0, 0, 0, 0, 0,
          8, 0, 0, 0, 0, 0, 0, 0, 0, 0, 0, 0, 0, 0, 0, 0, 4, 0, 0, 0, 0, 0, 0, 0,
          0, 0, 0, 0, 0, 0, 0, 0, 18, 0, 0, 0, 2, 0, 0, 0, 0, 0, 0, 0, 0, 0, 0, 0,
          0, 0, 0, 0, 0, 0, 0, 0, 16, 2, 0, 0, 0, 0, 0, 0, 48, 0, 0, 0, 0, 0, 0, 0,
          0, 0, 0, 0, 0, 0, 0, 0, 8, 0, 0, 0, 0, 0, 0, 0, 24, 0, 0, 0, 0, 0, 0, 0,
          26, 0, 0, 0, 3, 0, 0, 0, 0, 0, 0, 0, 0, 0, 0, 0, 0, 0, 0, 0, 0, 0, 0, 0,
          64, 2, 0, 0, 0, 0, 0, 0, 8, 0, 0, 0, 0, 0, 0, 0, 0, 0, 0, 0, 0, 0, 0, 0,
          1, 0, 0, 0, 0, 0, 0, 0, 0, 0, 0, 0, 0, 0, 0, 0, 34, 0, 0, 0, 3, 0, 0, 0,
          0, 0, 0, 0, 0, 0, 0, 0, 0, 0, 0, 0, 0, 0, 0, 0, 72, 2, 0, 0, 0, 0, 0, 0,
          44, 0, 0, 0, 0, 0, 0, 0, 0, 0, 0, 0, 0, 0, 0, 0, 1, 0, 0, 0, 0, 0, 0, 0,
          0, 0, 0, 0, 0, 0, 0, 0, 144, 15, 5, 0, 0, 0, 0, 0, 9, 0, 0, 0, 0, 0, 0, 0,
          0, 0, 0, 0, 0, 0, 0, 0, 0, 0, 0, 0, 0, 0, 0, 0, 0, 0, 0, 0, 0, 0, 0, 0,
          1, 0, 0, 0, 16, 0, 1, 0, 1, 0, 0, 0, 0, 0, 0, 0, 0, 0, 0, 0, 0, 0, 0, 0,
          0, 95, 115, 116, 97, 114, 116, 0, 0, 46, 116, 101, 120, 116, 0, 46, 100, 97, 116, 97, 0, 46, 98, 115,
          115, 0, 46, 115, 121, 109, 116, 97, 98, 0, 46, 115, 116, 114, 116, 97, 98, 0, 46, 115, 104, 115, 116, 114,
          116, 97, 98, 0
       >>,
       <<
          127, 69, 76, 70, 2, 1, 1, 0, 0, 0, 0, 0, 0, 0, 0, 0, 1, 0, 62, 0, 1, 0, 0, 0,
          0, 0, 0, 0, 0, 0, 0, 0, 0, 0, 0, 0, 0, 0, 0, 0, 64, 0, 0, 0, 0, 0, 0, 0,
          0, 0, 0, 0, 64, 0, 0, 0, 0, 0, 64, 0, 5, 0, 4, 0, 0, 0, 0, 0, 0, 0, 0, 0,
          0, 0, 0, 0, 0, 0, 0, 0, 0, 0, 0, 0, 0, 0, 0, 0, 0, 0, 0, 0, 0, 0, 0, 0,
          0, 0, 0, 0, 0, 0, 0, 0, 0, 0, 0, 0, 0, 0, 0, 0, 0, 0, 0, 0, 0, 0, 0, 0,
          0, 0, 0, 0, 0, 0, 0, 0, 1, 0, 0, 0, 1, 0, 0, 0, 0, 0, 0, 0, 0, 0, 0, 0,
          0, 0, 0, 0, 0, 0, 0, 0, 128, 1, 0, 0, 0, 0, 0, 0, 1, 0, 0, 0, 0, 0, 0, 0,
          0, 0, 0, 0, 0, 0, 0, 0, 0, 0, 0, 0, 0, 0, 0, 0, 0, 0, 0, 0, 0, 0, 0, 0,
          7, 0, 0, 0, 2, 0, 0, 0, 0, 0, 0, 0, 0, 0, 0, 0, 0, 0, 0, 0, 0, 0, 0, 0,
          136, 1, 0, 0, 0, 0, 0, 0, 24, 0, 0, 0, 0, 0, 0, 0, 0, 0, 0, 0, 0, 0, 0, 0,
          8, 0, 0, 0, 0, 0, 0, 0, 24, 0, 0, 0, 0, 0, 0, 0, 15, 0, 0, 0, 3, 0, 0, 0,
          0, 0, 0, 0, 0, 0, 0, 0, 0, 0, 0, 0, 0, 0, 0, 0, 160, 1, 0, 0, 0, 0, 0, 0,
          1, 0, 0, 0, 0, 0, 0, 0, 0, 0, 0, 0, 0, 0, 0, 0, 1, 0, 0, 0, 0, 0, 0, 0,
          0, 0, 0, 0, 0, 0, 0, 0, 23, 0, 0, 0, 3, 0, 0, 0, 0, 0, 0, 0, 0, 0, 0, 0,
          0, 0, 0, 0, 0, 0, 0, 0, 168, 1, 0, 0, 0, 0, 0, 0, 33, 0, 0, 0, 0, 0, 0, 0,
          0, 0, 0, 0, 0, 0, 0, 0, 1, 0, 0, 0, 0, 0, 0, 0, 0, 0, 0, 0, 0, 0, 0, 0,
          7, 0, 0, 0, 0, 0, 0, 0, 0, 0, 0, 0, 0, 0, 0, 0, 0, 0, 0, 0, 0, 0, 0, 0,
          0, 0, 0, 0, 0, 0, 0, 0, 0, 0, 0, 0, 0, 0, 0, 0, 0, 46, 100, 97, 116, 97, 0, 46,
          115, 121, 109, 116, 97, 98, 0, 46, 115, 116, 114, 116, 97, 98, 0, 46, 115, 104, 115, 116, 114, 116, 97, 98,
          0
       >>
    >>

\* The files on disk are the objects described.
DiskAsDescribed ==
    \A k \in DOMAIN ObjDescs :
        Disk[k] = IF ObjDescs[k].readable THEN ObjectFile(ObjDescs[k]) ELSE <<>>

-----------------------------------------------------------------------------
(* elven-wald: the linker *)

PF_X == 1
SHF_ALLOC == 2
SHF_EXECINSTR == 4

\* b"text", what run() compares a section name to
TextLiteral == <<116, 101, 120, 116>>

\* opts.objs[i] as it shows in a message: the file it names.
Path(file) == [path |-> file]

\* The bytes mapped for each input, in input order.
ElvesOf(inputs) == [i \in DOMAIN inputs |-> Disk[inputs[i]]]

\* align_up that leaves out the align - 1 it adds first: it rounds down.
AlignExt_align_up_rounds_down(self, align) ==
    IF ~(is_power_of_two(align) /\ align > 0) THEN [panic |-> TRUE, val |-> 0]
    ELSE [panic |-> FALSE, val |-> self - BitAnd(self, align - 1)]

\* u64::align_up of AlignExt
AlignExt_align_up(self, align) ==
    IF ~(is_power_of_two(align) /\ align > 0) THEN [panic |-> TRUE, val |-> 0]
    ELSE LET sum == self + align - 1
         IN [panic |-> FALSE, val |-> sum - BitAnd(sum, align - 1)]

\* for name in [b".text", b".data", b".bss"]
AllocatedNames == <<DotText, DotData, DotBss>>

\* allocs.entry(name).or_default().push(a) on an IndexMap
allocs_push(allocs, name, a) ==
    IF \E k \in DOMAIN allocs : allocs[k].name = name
    THEN [k \in DOMAIN allocs |->
            IF allocs[k].name = name
            THEN [allocs[k] EXCEPT !.allocs = Append(@, a)] ELSE allocs[k]]
    ELSE Append(allocs, [name |-> name, allocs |-> <<a>>])

\* Pass one of allocate_storage, from file i and name n on.
RECURSIVE allocate_storage_collect(_, _, _, _)
allocate_storage_collect(files, i, n, allocs) ==
    IF i > Len(files) THEN Ok(allocs)
    ELSE IF n > Len(AllocatedNames) THEN allocate_storage_collect(files, i + 1, 1, allocs)
    ELSE LET name == AllocatedNames[n]
             match(section) ==
                IF section.ok
                THEN allocate_storage_collect(files, i, n + 1,
                        allocs_push(allocs, name,
                           [ file |-> i - 1, section |-> name,
                             size |-> section.val.size,
                             align |-> section.val.addralign ]))
                ELSE IF section.err[1] = "NotFoundByName"
                THEN allocate_storage_collect(files, i, n + 1, allocs)
                ELSE section
         IN match(section_header_by_name(files[i], name))

\* The inner loop of pass two: the parts of one section from alloc j on.
RECURSIVE allocate_storage_parts(_, _, _, _)
allocate_storage_parts(allocs, j, current_addr, segment_parts) ==
    IF j > Len(allocs)
    THEN [panic |-> FALSE, parts |-> segment_parts, current_addr |-> current_addr]
    ELSE LET at(addr) ==
                IF addr.panic
                THEN [ panic |-> TRUE, parts |-> segment_parts,
                       current_addr |-> current_addr ]
                ELSE allocate_storage_parts(allocs, j + 1, addr.val + allocs[j].size,
                        Append(segment_parts,
                           [ pad_from_prev |-> addr.val - current_addr,
                             base |-> addr.val, align |-> allocs[j].align,
                             file |-> allocs[j].file, size |-> allocs[j].size ]))
         IN at(AlignExt_align_up(current_addr, allocs[j].align))

\* The outer loop of pass two, from section s on.
RECURSIVE allocate_storage_sections(_, _, _, _)
allocate_storage_sections(allocs, s, current_addr, section_parts) ==
    IF s > Len(allocs) THEN [tag |-> "Ok", val |-> [sections |-> section_parts]]
    ELSE LET push(r) ==
                IF r.panic THEN Panic("AlignExt::align_up")
                ELSE allocate_storage_sections(allocs, s + 1, r.current_addr,
                        Append(section_parts,
                               [name |-> allocs[s].name, parts |-> r.parts]))
             from(paged) ==
                IF paged.panic THEN Panic("AlignExt::align_up")
                ELSE push(allocate_storage_parts(allocs[s].allocs, 1, paged.val, <<>>))
         IN from(AlignExt_align_up(current_addr, DEFAULT_PAGE_ALIGN))

allocate_storage(base_addr, files) ==
    LET place(allocs) ==
           IF ~allocs.ok THEN Failed(allocs.err)
           ELSE allocate_storage_sections(allocs.val, 1, base_addr, <<>>)
    IN place(allocate_storage_collect(files, 1, 1, <<>>))

\* A later definition replaces the one recorded.
sym_defs_entry_last_wins(sym_defs_, name, definition) ==
    IF name \in DOMAIN sym_defs_
    THEN IF sym_defs_[name].definition.some /\ definition.some
         THEN Err(<<"duplicate definition for symbol {name}", name>>)
         ELSE Ok([sym_defs_ EXCEPT ![name].definition = definition])
    ELSE Ok((name :> [name |-> name, definition |-> definition]) @@ sym_defs_)

\* Two definitions of a name are let through.
sym_defs_entry_no_duplicates(sym_defs_, name, definition) ==
    IF name \in DOMAIN sym_defs_
    THEN IF ~sym_defs_[name].definition.some /\ definition.some
         THEN Ok([sym_defs_ EXCEPT ![name].definition = definition])
         ELSE Ok(sym_defs_)
    ELSE Ok((name :> [name |-> name, definition |-> definition]) @@ sym_defs_)

\* A definition after a reference is not filled in.
sym_defs_entry_no_fill(sym_defs_, name, definition) ==
    IF name \in DOMAIN sym_defs_
    THEN IF sym_defs_[name].definition.some /\ definition.some
         THEN Err(<<"duplicate definition for symbol {name}", name>>)
         ELSE Ok(sym_defs_)
    ELSE Ok((name :> [name |-> name, definition |-> definition]) @@ sym_defs_)

\* match self.sym_defs.entry(name): the table afterwards, or the failure.
sym_defs_entry(sym_defs_, name, definition) ==
    IF name \in DOMAIN sym_defs_
    THEN IF sym_defs_[name].definition.some /\ definition.some
         THEN Err(<<"duplicate definition for symbol {name}", name>>)
         ELSE IF ~sym_defs_[name].definition.some /\ definition.some
         THEN Ok([sym_defs_ EXCEPT ![name].definition = definition])
         ELSE Ok(sym_defs_)
    ELSE Ok((name :> [name |-> name, definition |-> definition]) @@ sym_defs_)

\* The body of the inner loop of sym_first_pass for symbol e_sym of file
\* elf_idx_.
sym_first_pass_symbol(sym_defs_, elf, elf_idx_, e_sym) ==
    IF SymInfo_type(e_sym.info) = STT_SECTION THEN Ok(sym_defs_)
    ELSE LET definition ==
                IF e_sym.shndx = SHN_UNDEF THEN None
                ELSE Some([ location |-> [file |-> elf_idx_, section |-> e_sym.shndx],
                            value |-> e_sym.value, size |-> e_sym.size ])
             entry(name) ==
                IF ~name.ok THEN name ELSE sym_defs_entry(sym_defs_, name.val, definition)
         IN entry(string(elf, e_sym.name))

create_elf ==
    ElfWriter_new([ ident |-> Ident(ELFMAG), type |-> ET_EXEC, machine |-> EM_X86_64 ])

NonZeroU64_new(n) == IF n = 0 THEN None ELSE Some(n)

\* The content of an output section: the parts from p on, each after its pad.
RECURSIVE section_parts_content(_, _, _, _, _)
section_parts_content(files, name, parts, p, content) ==
    IF p > Len(parts) THEN Ok(content)
    ELSE LET elf == files[parts[p].file + 1]
             extend(data) ==
                IF ~data.ok THEN data
                ELSE section_parts_content(files, name, parts, p + 1,
                        content \o Zeros(parts[p].pad_from_prev) \o data.val)
             of(shdr) ==
                IF ~shdr.ok THEN shdr ELSE extend(section_content(elf, shdr.val))
         IN of(section_header_by_name(elf, name))

\* for section in &cx.storage.sections, from section s on.
RECURSIVE emit_sections(_, _, _, _)
emit_sections(w, files, sections, s) ==
    IF s > Len(sections) THEN Ok(w)
    ELSE LET section == sections[s]
             exec == IF section.name = TextLiteral THEN SHF_EXECINSTR ELSE 0
             name == add_sh_string(w, section.name)
             next(added) ==
                IF ~added.ret.ok THEN added.ret
                ELSE emit_sections(added.w, files, sections, s + 1)
             add(content) ==
                IF ~content.ok THEN content
                ELSE next(add_section(name.w,
                        [ name |-> name.ret, type |-> SHT_PROGBITS,
                          flags |-> SHF_ALLOC + exec, fixed_entsize |-> None,
                          addr_align |-> NonZeroU64_new(
                             IF section.parts # <<>> THEN section.parts[1].align
                             ELSE DEFAULT_PAGE_ALIGN),
                          content |-> content.val ]))
         IN add(section_parts_content(files, section.name, section.parts, 1, <<>>))

\* elf.write() of write_elf_to_file
write_elf_to_file(elf) == write(elf)

\* The writer write_output hands to write_elf_to_file.
write_output(text, entry_offset_from_text) ==
    LET text_name == add_sh_string(create_elf, DotText)
        text_section ==
           add_section(text_name.w,
              [ name |-> text_name.ret, type |-> SHT_PROGBITS,
                flags |-> SHF_ALLOC + SHF_EXECINSTR, fixed_entsize |-> None,
                content |-> text, addr_align |-> Some(DEFAULT_PAGE_ALIGN) ])
        elf_header_and_program_headers ==
           [ type |-> PT_LOAD, flags |-> PF_R,
             offset |-> [section |-> 0, rel_offset |-> 0],
             vaddr |-> BASE_EXEC_ADDR, paddr |-> BASE_EXEC_ADDR,
             filesz |-> 176, memsz |-> 176, align |-> DEFAULT_PAGE_ALIGN ]
        entry_addr == BASE_EXEC_ADDR + DEFAULT_PAGE_ALIGN + entry_offset_from_text
        text_program_header ==
           [ type |-> PT_LOAD, flags |-> PF_X + PF_R,
             offset |-> [section |-> text_section.ret.val, rel_offset |-> 0],
             vaddr |-> entry_addr, paddr |-> entry_addr,
             filesz |-> Len(text), memsz |-> Len(text), align |-> DEFAULT_PAGE_ALIGN ]
    IN IF ~text_section.ret.ok THEN Failed(text_section.ret.err)
       ELSE write_elf_to_file(
               set_entry(
                  add_program_header(
                     add_program_header(text_section.w, elf_header_and_program_headers),
                     text_program_header),
                  entry_addr))

-----------------------------------------------------------------------------
(* run() as a state machine: one link of the files named by objs *)

Running == [tag |-> "Running"]
Linked == [tag |-> "Ok"]
\* An error returned by run(): where it arose, what its message is made of, and
\* the input paths the message shows.
Bail(at, msg, paths) == [tag |-> "Err", at |-> at, msg |-> msg, paths |-> paths]
Panicked(at, what) == [tag |-> "Panic", at |-> at, what |-> what]
NoWriter == [tag |-> "None"]

\* The lists of inputs a link is run on.
InputLists == UNION { [1..n -> DOMAIN Disk] : n \in 0..MaxFiles }

\* cx.elves
Elves == ElvesOf(objs)

LinkInit ==
    /\ DiskAsDescribed
    /\ ReadIdle
    /\ AlignIdle
    /\ ParseIdle
    /\ debug_assertions \in BOOLEAN
    /\ writer = NoWriter
    /\ strs = <<>>
    /\ supplied = <<>>
    /\ output = NoOutput
    /\ parsed = NoParse
    /\ objs \in InputLists
    /\ pc = "map"
    /\ storage = <<>>
    /\ sym_defs = <<>>
    /\ elf_idx = 0
    /\ sym_idx = 0
    /\ text_content = <<>>
    /\ start_sym = None
    /\ out_file = <<>>
    /\ result = Running

Return(r) ==
    /\ result' = r
    /\ pc' = "done"

\* lines 86-100: open and map every input, then refuse an empty list.
MapInputs ==
    /\ pc = "map"
    /\ \E unreadable \in {{ i \in DOMAIN objs : ~ObjDescs[objs[i]].readable }} :
          IF unreadable # {}
          THEN \E i \in unreadable :
                 /\ \A j \in unreadable : i <= j
                 /\ Return(Bail("map", <<"opening {path}">>, {Path(objs[i])}))
          ELSE IF Len(objs) = 0
          THEN Return(Bail("map", <<"you gotta supply at least one object file">>, {}))
          ELSE pc' = "parse" /\ UNCHANGED result
    /\ UNCHANGED <<wvars, rvars, avars, pvars, objs, storage, sym_defs, elf_idx, sym_idx, text_content,
                   start_sym, out_file>>

\* lines 104-115: ElfReader::new on every input.
ParseInputs ==
    /\ pc = "parse"
    /\ \E elves \in {Elves} :
         \E bad \in {{ i \in DOMAIN elves : ~ElfReader_new(elves[i]).ok }} :
          IF bad # {}
          THEN \E i \in bad :
                 /\ \A j \in bad : i <= j
                 /\ Return(Bail("parse", <<"parsing ELF file {path}",
                                           ElfReader_new(elves[i]).err>>,
                                {Path(objs[i])}))
          ELSE pc' = "alloc" /\ UNCHANGED result
    /\ UNCHANGED <<wvars, rvars, avars, pvars, objs, storage, sym_defs, elf_idx, sym_idx, text_content,
                   start_sym, out_file>>

\* lines 117-124
AllocateStorage ==
    /\ pc = "alloc"
    /\ \E r \in {allocate_storage(BASE_EXEC_ADDR, Elves)} :
          CASE r.tag = "Ok" ->
                 /\ storage' = r.val
                 /\ pc' = "syms"
                 /\ UNCHANGED result
            [] r.tag = "Err" ->
                 /\ Return(Bail("alloc", <<"while allocating storage", r.err>>, {}))
                 /\ UNCHANGED storage
            [] r.tag = "Panic" ->
                 /\ Return(Panicked("alloc", r.at))
                 /\ UNCHANGED storage
    /\ UNCHANGED <<wvars, rvars, avars, pvars, objs, sym_defs, elf_idx, sym_idx, text_content, start_sym,
                   out_file>>

\* sym_first_pass, one symbol of the file being scanned.
SymFirstPassSymbol ==
    /\ pc = "syms"
    /\ elf_idx < Len(objs)
    /\ \E elf \in {Elves[elf_idx + 1]} :
         \E syms \in {symbols(elf)} :
          /\ syms.ok
          /\ sym_idx < Len(syms.val)
          /\ \E r \in {sym_first_pass_symbol(sym_defs, elf, elf_idx,
                                             syms.val[sym_idx + 1])} :
                IF r.ok
                THEN /\ sym_defs' = r.val
                     /\ sym_idx' = sym_idx + 1
                     /\ UNCHANGED <<pc, result>>
                ELSE /\ Return(Bail("syms", r.err, {}))
                     /\ UNCHANGED <<sym_defs, sym_idx>>
    /\ UNCHANGED <<wvars, rvars, avars, pvars, objs, storage, elf_idx, text_content, start_sym, out_file>>

\* sym_first_pass, the outer loop: a file's symbols cannot be read, or they
\* are exhausted and the next file is taken.
SymFirstPassFile ==
    /\ pc = "syms"
    /\ elf_idx < Len(objs)
    /\ \E syms \in {symbols(Elves[elf_idx + 1])} :
          IF ~syms.ok
          THEN /\ Return(Bail("syms", syms.err, {}))
               /\ UNCHANGED <<elf_idx, sym_idx>>
          ELSE /\ sym_idx = Len(syms.val)
               /\ elf_idx' = elf_idx + 1
               /\ sym_idx' = 0
               /\ UNCHANGED <<pc, result>>
    /\ UNCHANGED <<wvars, rvars, avars, pvars, objs, storage, sym_defs, text_content, start_sym, out_file>>

\* sym_first_pass returns Ok(()).
SymFirstPassReturn ==
    /\ pc = "syms"
    /\ elf_idx = Len(objs)
    /\ pc' = "emit"
    /\ UNCHANGED <<wvars, rvars, avars, pvars, objs, storage, sym_defs, elf_idx, sym_idx, text_content,
                   start_sym, out_file, result>>

\* lines 130-163
EmitSections ==
    /\ pc = "emit"
    /\ \E r \in {emit_sections(create_elf, Elves, storage.sections, 1)} :
          IF r.ok
          THEN /\ writer' = r.val
               /\ pc' = "write"
               /\ UNCHANGED result
          ELSE /\ Return(Bail("emit", r.err, {}))
               /\ UNCHANGED writer
    /\ UNCHANGED <<debug_assertions, strs, supplied, output, parsed, rvars, avars, pvars,
                   objs,
                   storage, sym_defs, elf_idx, sym_idx, text_content, start_sym,
                   out_file>>

\* line 165: write_elf_to_file(writer, &opts.output)
WriteLinked ==
    /\ pc = "write"
    /\ \E r \in {write_elf_to_file(writer)} :
          CASE r.tag = "Ok" ->
                 /\ out_file' = Append(out_file, r.bytes)
                 /\ pc' = "text"
                 /\ UNCHANGED result
            [] r.tag = "Err" ->
                 /\ Return(Bail("write", <<"writing output file", r.err>>, {}))
                 /\ UNCHANGED out_file
            [] r.tag = "Panic" ->
                 /\ Return(Panicked("write", r.at))
                 /\ UNCHANGED out_file
    /\ UNCHANGED <<wvars, rvars, avars, pvars, objs, storage, sym_defs, elf_idx, sym_idx, text_content,
                   start_sym>>

\* lines 169-170: the .text of the first input
LookupText ==
    /\ pc = "text"
    /\ \E elf \in {Elves[1]} :
         \E text_sh \in {section_header_by_name(elf, DotText)} :
          IF ~text_sh.ok
          THEN Return(Bail("text", text_sh.err, {})) /\ UNCHANGED text_content
          ELSE \E content \in {section_content(elf, text_sh.val)} :
                 IF ~content.ok
                 THEN Return(Bail("text", content.err, {})) /\ UNCHANGED text_content
                 ELSE /\ text_content' = content.val
                      /\ pc' = "start"
                      /\ UNCHANGED result
    /\ UNCHANGED <<wvars, rvars, avars, pvars, objs, storage, sym_defs, elf_idx, sym_idx, start_sym, out_file>>

\* line 172: _start among the symbols of the first input
LookupStart ==
    /\ pc = "start"
    /\ \E sym \in {symbol_by_name(Elves[1], UnderscoreStart)} :
          IF ~sym.ok
          THEN Return(Bail("start", sym.err, {})) /\ UNCHANGED start_sym
          ELSE /\ start_sym' = Some(sym.val)
               /\ pc' = "output"
               /\ UNCHANGED result
    /\ UNCHANGED <<wvars, rvars, avars, pvars, objs, storage, sym_defs, elf_idx, sym_idx, text_content,
                   out_file>>

\* lines 174-176: write_output, then Ok(())
WriteOutput ==
    /\ pc = "output"
    /\ \E r \in {write_output(text_content, start_sym.val.value)} :
          CASE r.tag = "Ok" ->
                 /\ out_file' = Append(out_file, r.bytes)
                 /\ Return(Linked)
            [] r.tag = "Err" ->
                 /\ Return(Bail("output", <<"writing output file", r.err>>, {}))
                 /\ UNCHANGED out_file
            [] r.tag = "Panic" ->
                 /\ Return(Panicked("output", r.at))
                 /\ UNCHANGED out_file
    /\ UNCHANGED <<wvars, rvars, avars, pvars, objs, storage, sym_defs, elf_idx, sym_idx, text_content,
                   start_sym>>

LinkNext ==
    \/ MapInputs
    \/ ParseInputs
    \/ AllocateStorage
    \/ SymFirstPassSymbol
    \/ SymFirstPassFile
    \/ SymFirstPassReturn
    \/ EmitSections
    \/ WriteLinked
    \/ LookupText
    \/ LookupStart
    \/ WriteOutput

LinkSpec == LinkInit /\ [][LinkNext]_vars

-----------------------------------------------------------------------------
(* The link, checked against what the input objects are described to hold *)

\* The symbol at place k of the input at position i, for every symbol of the
\* inputs that is not a section symbol, in (file order, symbol-table order).
AllOccs ==
    UNION { { <<i, k>> : k \in { k \in DOMAIN ObjDescs[objs[i]].syms :
                                   ObjDescs[objs[i]].syms[k].type # STT_SECTION } } :
            i \in DOMAIN objs }

OccSym(o) == ObjDescs[objs[o[1]]].syms[o[2]]

IsDef(o) == OccSym(o).shndx # SHN_UNDEF

Before(a, b) == a[1] < b[1] \/ (a[1] = b[1] /\ a[2] < b[2])

FirstOcc(S) == CHOOSE o \in S : \A q \in S : q = o \/ Before(o, q)

DefOf(o) ==
    Some([ location |-> [file |-> o[1] - 1, section |-> OccSym(o).shndx],
           value |-> OccSym(o).value, size |-> OccSym(o).size ])

\* The occurrences sym_first_pass has gone through.
Processed ==
    { o \in AllOccs : o[1] - 1 < elf_idx \/ (o[1] - 1 = elf_idx /\ o[2] <= sym_idx) }

\* sym_first_pass has returned Ok / has returned an error.
Passed == Len(objs) > 0 /\ elf_idx = Len(objs) /\ pc # "syms"
PassFailed == pc = "done" /\ result.tag = "Err" /\ result.at = "syms"
PassOver == Passed \/ PassFailed

\* C5: at every point of sym_first_pass, and so when it has succeeded, the
\* keys of the table are the names of the symbols gone through that are not
\* section symbols; a name has a definition iff one of these occurrences has a
\* section index other than SHN_UNDEF, and the definition recorded (file,
\* section index, value, size) is that of the first such occurrence, whatever
\* occurrences came after it.
C5_SymbolTable ==
    /\ DOMAIN sym_defs = { OccSym(o).name : o \in Processed }
    /\ \A o \in Processed :
         LET defs == { d \in Processed : IsDef(d) /\ OccSym(d).name = OccSym(o).name }
         IN sym_defs[OccSym(o).name] =
               [ name |-> OccSym(o).name,
                 definition |-> IF defs = {} THEN None ELSE DefOf(FirstOcc(defs)) ]

\* The pass has succeeded over inputs where a name is defined, then referenced.
C5_Witness ==
    /\ Passed
    /\ \E d \in AllOccs, r \in AllOccs :
          /\ IsDef(d) /\ ~IsDef(r)
          /\ OccSym(d).name = OccSym(r).name
          /\ Before(d, r)

\* The occurrences that define a name an earlier occurrence has defined.
Duplicates ==
    { o \in AllOccs : IsDef(o) /\ \E d \in AllOccs :
                         IsDef(d) /\ Before(d, o) /\ OccSym(d).name = OccSym(o).name }

\* The inputs whose symbols cannot be read: they have no symbol table.
NoSymtab == { i \in DOMAIN objs : ~ObjDescs[objs[i]].symtab }

\* C6 as stated: sym_first_pass fails exactly when a name has two defining
\* occurrences, and then at the second of them.
C6_Original ==
    PassOver =>
       IF Duplicates = {} THEN Passed
       ELSE PassFailed /\ <<elf_idx + 1, sym_idx + 1>> = FirstOcc(Duplicates)

\* C6: sym_first_pass fails with the duplicate definition of a name exactly
\* when, among the symbols of the files it can read, a name has two defining
\* occurrences; it stops at the second of them.  It fails with the reader's
\* error at the first file that has no symbol table.  It succeeds otherwise,
\* names that are only referenced included.
C6_DuplicateFailure ==
    PassOver =>
       LET dups == { o \in Duplicates : \A i \in NoSymtab : o[1] < i }
       IN IF dups # {}
          THEN /\ PassFailed
               /\ result.msg = <<"duplicate definition for symbol {name}",
                                 OccSym(FirstOcc(dups)).name>>
               /\ <<elf_idx + 1, sym_idx + 1>> = FirstOcc(dups)
          ELSE IF NoSymtab # {}
          THEN /\ PassFailed
               /\ result.msg[1] = "SectionTypeNotFound"
               /\ \A i \in NoSymtab : elf_idx + 1 <= i
               /\ elf_idx + 1 \in NoSymtab
               /\ sym_idx = 0
          ELSE Passed

\* The pass has failed at the second definition of a name, with a symbol left
\* unread after it and a name that is only referenced.
C6_Witness ==
    /\ PassFailed
    /\ Duplicates # {}
    /\ <<elf_idx + 1, sym_idx + 1>> = FirstOcc(Duplicates)
    /\ \E o \in AllOccs :
          /\ Before(<<elf_idx + 1, sym_idx + 1>>, o)
          /\ \A d \in AllOccs : OccSym(d).name = OccSym(o).name => ~IsDef(d)

\* C7: when sym_first_pass fails on the second definition of a name, the error
\* it returns names the file of the definition recorded and the file of the
\* new one.
C7_DuplicateNamesFiles ==
    (PassFailed /\ result.msg[1] = "duplicate definition for symbol {name}") =>
       /\ Path(objs[elf_idx + 1]) \in result.paths
       /\ Path(objs[sym_defs[result.msg[2]].definition.val.location.file + 1])
             \in result.paths

\* The names an input only refers to, and the names it defines.
OnlyReferences(i, s) ==
    /\ \E o \in AllOccs : o[1] = i /\ OccSym(o).name = s /\ ~IsDef(o)
    /\ \A o \in AllOccs : (o[1] = i /\ OccSym(o).name = s) => ~IsDef(o)

Defines(i, s) == \E o \in AllOccs : o[1] = i /\ OccSym(o).name = s /\ IsDef(o)

\* C8: over two inputs with no name defined twice, of which one only refers
\* to a name s and the other defines s, sym_first_pass succeeds in either order
\* of the two, and the table maps s to the definition of the defining file:
\* its section index, value and size.
C8_ReferenceThenDefinition ==
    \A s \in { OccSym(o).name : o \in AllOccs } :
       \A i \in DOMAIN objs, j \in DOMAIN objs :
          (/\ Len(objs) = 2
           /\ Duplicates = {}
           /\ OnlyReferences(i, s)
           /\ Defines(j, s)
           /\ PassOver)
          => /\ Passed
             /\ sym_defs[s].definition =
                   DefOf(CHOOSE o \in AllOccs :
                            o[1] = j /\ OccSym(o).name = s /\ IsDef(o))

\* The pass has succeeded over a file that only refers to a name and, after
\* it, the file that defines the name.
C8_Witness ==
    /\ Passed
    /\ Len(objs) = 2
    /\ \E s \in { OccSym(o).name : o \in AllOccs } :
          OnlyReferences(1, s) /\ Defines(2, s)

\* C9: when no input defines _start, the link does not succeed and no entry
\* is taken from _start.
C9_EntryRequiresDefinition ==
    (\A i \in DOMAIN objs : ~Defines(i, UnderscoreStart)) =>
       /\ result.tag # "Ok"
       /\ start_sym = None

\* C10: when exactly one input defines _start, looking up the entry does not
\* fail, and the symbol it takes is that definition.
C10_EntryFromTable ==
    (\E i \in DOMAIN objs :
        /\ Defines(i, UnderscoreStart)
        /\ \A j \in DOMAIN objs : Defines(j, UnderscoreStart) => j = i)
    => /\ ~(pc = "done" /\ result.tag = "Err" /\ result.at = "start")
       /\ start_sym # None =>
             \E o \in AllOccs :
                /\ OccSym(o).name = UnderscoreStart /\ IsDef(o)
                /\ start_sym.val.shndx = OccSym(o).shndx
                /\ start_sym.val.value = OccSym(o).value

\* C4: a run that has returned an error has written nothing to the output
\* path, and a run that has returned Ok has written it once.
C4_WritesOnceOrNothing ==
    /\ result.tag = "Err" => out_file = <<>>
    /\ result.tag = "Ok" => Len(out_file) = 1

-----------------------------------------------------------------------------
(* The executable a link leaves at the output path *)

\* The bytes at the output path: what was written there last.
Executable == out_file[Len(out_file)]

\* The value the inputs give _start where they first define it.
StartValue ==
    OccSym(FirstOcc({ o \in AllOccs : OccSym(o).name = UnderscoreStart /\ IsDef(o) })).value

\* The sections of the plan named name.
PlanSections(name) ==
    { s \in DOMAIN storage.sections : storage.sections[s].name = name }

\* C11: after a link of a single input that defines _start has succeeded, the
\* entry in the header of the executable is the base the storage plan gives
\* the first part of .text plus the value of _start.
C11_EntryIsTextBasePlusStart ==
    (result = Linked /\ Len(objs) = 1 /\ Defines(1, UnderscoreStart)) =>
       \E h \in {header(Executable)} :
          /\ h.ok
          /\ \A s \in PlanSections(DotText) :
                h.val.entry = LE(storage.sections[s].parts[1].base + StartValue, 8)

\* C12: every program header of the executable of a link that has succeeded
\* has a file size of at most its memory size and an offset congruent to its
\* virtual address modulo its alignment.
C12_ProgramHeadersWellFormed ==
    result = Linked =>
       \E phs \in {program_headers(Executable)} :
          /\ phs.ok
          /\ \A k \in DOMAIN phs.val :
                /\ phs.val[k].filesz <= phs.val[k].memsz
                /\ phs.val[k].align > 0
                /\ phs.val[k].offset % phs.val[k].align
                      = phs.val[k].vaddr % phs.val[k].align

\* The bytes the input at position i is described to hold in its section name.
InputContent(i, name) ==
    LET d == ObjDescs[objs[i]]
    IN d.sections[CHOOSE k \in DOMAIN d.sections : d.sections[k].name = name].content

\* What the plan says section s of the output holds: every part after its pad.
MergedContent(s) ==
    LET section == storage.sections[s]
    IN Flatten([p \in DOMAIN section.parts |->
                  Zeros(section.parts[p].pad_from_prev)
                  \o InputContent(section.parts[p].file + 1, section.name)])

\* C13: after a link that has succeeded, the executable has, for every section
\* of the plan, exactly one section of that name, and its content is the parts
\* of the plan one after the other, each after its padding: the .text of the
\* executable holds the .text of every input.
C13_OutputHoldsMergedSections ==
    result = Linked =>
       \E shs \in {section_headers(Executable)} :
          /\ shs.ok
          /\ \A s \in DOMAIN storage.sections :
                \E k \in DOMAIN shs.val :
                   /\ sh_string(Executable, shs.val[k].name) = Ok(storage.sections[s].name)
                   /\ section_content(Executable, shs.val[k]) = Ok(MergedContent(s))
                   /\ \A j \in DOMAIN shs.val :
                         sh_string(Executable, shs.val[j].name)
                            = Ok(storage.sections[s].name) => j = k

\* The name of section k of the writer the emission loop has filled.
EmittedName(k) ==
    string_in(writer.sections[SH_STRTAB + 1].content, writer.sections[k].name)

\* C14: of the sections the emission loop has added, .text is flagged
\* executable and allocated, .data and .bss allocated and not executable.
C14_TextIsExecutable ==
    writer # NoWriter =>
       \A k \in DOMAIN writer.sections :
          \E n \in {EmittedName(k)} :
             /\ n.ok
             /\ n.val = DotText => writer.sections[k].flags = SHF_ALLOC + SHF_EXECINSTR
             /\ n.val \in {DotData, DotBss} => writer.sections[k].flags = SHF_ALLOC

\* The loadable program headers among phs.
Loads(phs) == SelectSeq(phs, LAMBDA ph : ph.type = PT_LOAD)

\* C15: the executable of a link that has succeeded has as many loadable
\* program headers as the plan has sections, and every section of the plan has
\* one whose virtual address is the base of its first part.
C15_OneLoadPerSection ==
    result = Linked =>
       \E phs \in {program_headers(Executable)} :
          /\ phs.ok
          /\ Len(Loads(phs.val)) = Len(storage.sections)
          /\ \A s \in DOMAIN storage.sections :
                \E k \in DOMAIN phs.val :
                   /\ phs.val[k].type = PT_LOAD
                   /\ phs.val[k].vaddr = storage.sections[s].parts[1].base

-----------------------------------------------------------------------------
(* The storage plan, checked against what the input objects are described to hold *)

\* allocate_storage has returned its plan.
Planned == storage # <<>>

\* The places of the plan: part p of section s, in plan order.
Places ==
    UNION { { <<s, p>> : p \in DOMAIN storage.sections[s].parts } :
            s \in DOMAIN storage.sections }

PartAt(pl) == storage.sections[pl[1]].parts[pl[2]]
PartEnd(pl) == PartAt(pl).base + PartAt(pl).size
PlaceBefore(a, b) == a[1] < b[1] \/ (a[1] = b[1] /\ a[2] < b[2])

\* n rounded up to the next page boundary.
PageUp(n) == ((n + DEFAULT_PAGE_ALIGN - 1) \div DEFAULT_PAGE_ALIGN) * DEFAULT_PAGE_ALIGN

\* Where the cursor stands when the part at pl is placed: the end of the part
\* before it in its section, or for the first part of a section the page
\* boundary after the end of the section before (after the base address).
CursorAt(pl) ==
    IF pl[2] > 1 THEN PartEnd(<<pl[1], pl[2] - 1>>)
    ELSE IF pl[1] > 1
    THEN PageUp(PartEnd(<<pl[1] - 1, Len(storage.sections[pl[1] - 1].parts)>>))
    ELSE PageUp(BASE_EXEC_ADDR)

\* The section the part at pl comes from, as its input describes it.
DescribedSection(pl) ==
    LET d == ObjDescs[objs[PartAt(pl).file + 1]]
    IN d.sections[CHOOSE k \in DOMAIN d.sections :
                     d.sections[k].name = storage.sections[pl[1]].name]

\* C16: in every plan allocate_storage returns, the parts of a section are in
\* file order and have the size and alignment their inputs declare; the base
\* of every part is a multiple of its alignment and at least the base address;
\* pad_from_prev is the base less the end of the part before it, for the first
\* part of a section less the cursor rounded up to the page; and the address
\* ranges of the parts are disjoint and in plan order.
C16_PlacementInvariant ==
    Planned =>
       /\ \A pl \in Places :
             /\ PartAt(pl).align = DescribedSection(pl).addralign
             /\ PartAt(pl).size =
                   (IF DescribedSection(pl).type = SHT_NOBITS
                    THEN DescribedSection(pl).size
                    ELSE Len(DescribedSection(pl).content))
             /\ PartAt(pl).base % PartAt(pl).align = 0
             /\ PartAt(pl).base >= BASE_EXEC_ADDR
             /\ PartAt(pl).pad_from_prev = PartAt(pl).base - CursorAt(pl)
       /\ \A a, b \in Places :
             PlaceBefore(a, b) =>
                /\ PartEnd(a) <= PartAt(b).base
                /\ a[1] = b[1] => PartAt(a).file < PartAt(b).file

\* A plan of several sections, one of them with a second part that is padded.
C16_Witness ==
    /\ Planned
    /\ Len(storage.sections) >= 2
    /\ \E pl \in Places : pl[2] > 1 /\ PartAt(pl).pad_from_prev > 0

\* The place of name among .text, .data, .bss.
CanonicalRank(name) == CHOOSE n \in DOMAIN AllocatedNames : AllocatedNames[n] = name

\* The inputs described to have a section named name, by position less one.
FilesWith(name) ==
    { i - 1 : i \in { i \in DOMAIN objs :
                        \E k \in DOMAIN ObjDescs[objs[i]].sections :
                           ObjDescs[objs[i]].sections[k].name = name } }

\* C17: the sections of every plan are in the order .text, .data, .bss, a name
\* at most once, each with exactly one part for every input that has a section
\* of that name, whichever inputs have which sections and in whatever order
\* the inputs are given.
C17_CanonicalOrder ==
    Planned =>
       /\ \A s \in DOMAIN storage.sections :
             /\ storage.sections[s].name \in {DotText, DotData, DotBss}
             /\ { storage.sections[s].parts[p].file : p \in DOMAIN storage.sections[s].parts }
                   = FilesWith(storage.sections[s].name)
             /\ Len(storage.sections[s].parts)
                   = Cardinality(FilesWith(storage.sections[s].name))
       /\ \A s, t \in DOMAIN storage.sections :
             s < t => CanonicalRank(storage.sections[s].name)
                         < CanonicalRank(storage.sections[t].name)

-----------------------------------------------------------------------------
(* An ElfReader on files that are not what they declare *)

\* The largest number of entries a header declares for a table.
MaxEntries == 2

\* b"\x7fELG"
NotElfMagic == <<127, 69, 76, 71>>

\* Where the tables of a whole file lie: after the header room for MaxEntries
\* program headers, then for MaxEntries section headers, then two symbols.
ShapedShoff == SizeOfElfHeader + MaxEntries * SizeOfPhdr
ShapedSymoff == ShapedShoff + MaxEntries * SizeOfShdr
ShapedLen == ShapedSymoff + 2 * SizeOfSym

\* A file that is what it declares: one program header, the null section
\* header and that of the symbol table, two symbols.
Shaped ==
    [ magic |-> ELFMAG, len |-> ShapedLen,
      phentsize |-> SizeOfPhdr, phnum |-> 1, phoff |-> SizeOfElfHeader,
      shentsize |-> SizeOfShdr, shnum |-> 2, shoff |-> ShapedShoff,
      symtype |-> SHT_SYMTAB, symoff |-> ShapedSymoff, symsize |-> 2 * SizeOfSym ]

\* The bytes of the file f describes: the header declares f's tables wherever
\* f says, and the file is cut off after f.len bytes.
ReadImage(f) ==
    LET hdr == [ ident |-> Ident(f.magic), type |-> ET_REL, machine |-> EM_X86_64,
                 version |-> 1, entry |-> Zeros(8), phoff |-> f.phoff,
                 shoff |-> f.shoff, flags |-> Zeros(4),
                 ehsize |-> SizeOfElfHeader, phentsize |-> f.phentsize,
                 phnum |-> f.phnum, shentsize |-> f.shentsize, shnum |-> f.shnum,
                 shstrndex |-> SHN_UNDEF ]
        load == [ type |-> PT_LOAD, flags |-> PF_R, offset |-> 0,
                  vaddr |-> BASE_EXEC_ADDR, paddr |-> BASE_EXEC_ADDR,
                  filesz |-> ShapedLen, memsz |-> ShapedLen,
                  align |-> DEFAULT_PAGE_ALIGN ]
        symtab == [ name |-> 0, type |-> f.symtype, flags |-> 0, addr |-> 0,
                    offset |-> f.symoff, size |-> f.symsize, link |-> 0, info |-> 1,
                    addralign |-> 8, entsize |-> SizeOfSym ]
        sym == [ name |-> 0, info |-> STB_GLOBAL * 16 + STT_NOTYPE, other |-> 0,
                 shndx |-> SHN_ABS, value |-> 7, size |-> 0 ]
        cut(whole) == SubSeq(whole, 1, f.len)
    IN cut(ElfHeaderBytes(hdr)
           \o Flatten([k \in 1..MaxEntries |-> PhdrBytes(load)])
           \o Flatten([k \in 1..MaxEntries |->
                         IF k = 2 THEN ShdrBytes(symtab) ELSE Zeros(SizeOfShdr)])
           \o SymBytes(ParseSym(Zeros(SizeOfSym))) \o SymBytes(sym))

\* The files read: whole or cut short, with either magic; and whole files
\* whose header declares one table with another entry size, entry count or
\* offset (aligned or not, too near the end of the file, at its end or past
\* it).
Shapes ==
    { [Shaped EXCEPT !.magic = m, !.len = n] :
        m \in {ELFMAG, NotElfMagic},
        n \in {0, 3, SELFMAG, SizeOfElfHeader - 1, SizeOfElfHeader, ShapedLen} }
    \cup { [Shaped EXCEPT !.phentsize = e, !.phnum = c, !.phoff = o] :
             e \in {SizeOfPhdr, 32}, c \in 0..MaxEntries,
             o \in {SizeOfElfHeader, SizeOfElfHeader - 4, ShapedSymoff, ShapedLen,
                    ShapedLen + 8} }
    \cup { [Shaped EXCEPT !.shentsize = e, !.shnum = c, !.shoff = o] :
             e \in {SizeOfShdr, 40}, c \in 0..MaxEntries,
             o \in {ShapedShoff, ShapedShoff + 4, ShapedLen, ShapedLen + 8} }
    \cup { [Shaped EXCEPT !.symoff = o, !.symsize = z] :
             o \in {ShapedSymoff, ShapedSymoff + 4, ShapedLen + 8},
             z \in {0, 20, 2 * SizeOfSym, 3 * SizeOfSym} }

ReadInit ==
    /\ debug_assertions \in BOOLEAN
    /\ writer = NoWriter
    /\ strs = <<>>
    /\ supplied = <<>>
    /\ output = NoOutput
    /\ parsed = NoParse
    /\ LinkIdle
    /\ AlignIdle
    /\ ParseIdle
    /\ \E f \in Shapes : buf = ReadImage(f)
    /\ reader = NotRead
    /\ read_phs = NotRead
    /\ read_shs = NotRead
    /\ read_syms = NotRead
    /\ read_content = NotRead
    /\ read_string = NotRead

\* ElfReader::new(buf)
New ==
    /\ reader = NotRead
    /\ reader' = ElfReader_new(buf)
    /\ UNCHANGED <<wvars, lvars, avars, pvars, buf, read_phs, read_shs, read_syms,
                   read_content, read_string>>

\* A reader was made: .ok is asked of nothing else.
HasReader == reader # NotRead /\ reader.ok

\* reader.program_headers()
ProgramHeaders ==
    /\ HasReader
    /\ read_phs = NotRead
    /\ read_phs' = program_headers(reader.val)
    /\ UNCHANGED <<wvars, lvars, avars, pvars, buf, reader, read_shs, read_syms,
                   read_content, read_string>>

\* reader.section_headers()
SectionHeaders ==
    /\ HasReader
    /\ read_shs = NotRead
    /\ read_shs' = section_headers(reader.val)
    /\ UNCHANGED <<wvars, lvars, avars, pvars, buf, reader, read_phs, read_syms,
                   read_content, read_string>>

\* reader.symbols()
Symbols ==
    /\ HasReader
    /\ read_syms = NotRead
    /\ read_syms' = symbols(reader.val)
    /\ UNCHANGED <<wvars, lvars, avars, pvars, buf, reader, read_phs, read_shs,
                   read_content, read_string>>

ReadNext ==
    \/ New
    \/ ProgramHeaders
    \/ SectionHeaders
    \/ Symbols

ReadSpec == ReadInit /\ [][ReadNext]_vars

-----------------------------------------------------------------------------
(* The reader, checked against the bytes it was given *)

\* The first four bytes of buf.
Magic == SubSeq(buf, 1, SELFMAG)

\* C18 as stated: for every buffer of at least 4 bytes whose first four are
\* not the ELF magic, ElfReader::new fails with WrongMagic carrying them.
C18_Original ==
    (reader # NotRead /\ Len(buf) >= SELFMAG /\ Magic # ELFMAG) =>
       reader = Err(<<"WrongMagic", Magic>>)

\* C18: for every buffer of at least the 64 bytes of an ELF header whose first
\* four are not the ELF magic, ElfReader::new fails with WrongMagic carrying
\* them; for every shorter buffer it fails with FileTooSmall, whatever the
\* bytes are.
C18_WrongMagic ==
    reader # NotRead =>
       /\ (Len(buf) >= SizeOfElfHeader /\ Magic # ELFMAG) =>
             reader = Err(<<"WrongMagic", Magic>>)
       /\ Len(buf) < SizeOfElfHeader => reader = Err(<<"FileTooSmall">>)

\* ElfReader::new has refused a buffer as long as a header for its magic.
C18_Witness ==
    /\ Len(buf) >= SizeOfElfHeader
    /\ reader = Err(<<"WrongMagic", NotElfMagic>>)

\* The header of buf, once a reader was made of it.
Declared == ParseElfHeader(buf)

\* The call has returned an error of one of the two kinds for reads out of
\* bounds.
OutOfBounds(r) == ~r.ok /\ r.err[1] \in {"IndexOutOfBounds", "RegionOutOfBounds"}

\* The records r returned are those of buf from off on, size bytes each, all
\* of them inside buf.
RecordsInside(r, off, size) ==
    \A i \in DOMAIN r :
       /\ off + i * size <= Len(buf)
       /\ r[i] = SubSeq(buf, off + (i - 1) * size + 1, off + i * size)

\* C19: program_headers() fails with the error for the program header entry
\* size whenever the header declares one other than 56, and section_headers()
\* with the error for the section header entry size whenever the header
\* declares one other than 64, whatever the count and the offset declared.
C19_EntSizeGuard ==
    /\ (read_phs # NotRead /\ Declared.phentsize # SizeOfPhdr) =>
          read_phs = Err(<<"InvalidPhEntSize", SizeOfPhdr, Declared.phentsize>>)
    /\ (read_shs # NotRead /\ Declared.shentsize # SizeOfShdr) =>
          read_shs = Err(<<"InvalidShEntSize", SizeOfShdr, Declared.shentsize>>)

\* C20 as stated: whenever the offset a table is declared at plus the bytes it
\* is declared to take goes past the end of the buffer, whatever the count,
\* the call fails with an error for a read out of bounds.
C20_Original ==
    /\ (read_phs # NotRead
          /\ Declared.phoff + Declared.phnum * SizeOfPhdr > Len(buf)) =>
          OutOfBounds(read_phs)
    /\ (read_shs # NotRead
          /\ Declared.shoff + Declared.shnum * SizeOfShdr > Len(buf)) =>
          OutOfBounds(read_shs)
    /\ read_syms # NotRead =>
          \E sh \in {section_header_by_type(buf, SHT_SYMTAB)} :
             (sh.ok /\ sh.val.offset + sh.val.size > Len(buf)) => OutOfBounds(read_syms)

\* C20: when the header declares a table of at least one entry, of the entry
\* size the reader expects, at an offset where offset plus size goes past the
\* end of the buffer, program_headers() and section_headers() fail with an
\* error for a read out of bounds, and so does symbols() when the symbol
\* table found is declared to end past the buffer; a table of no entries is
\* returned empty whatever its offset; and the records of every table
\* returned are bytes of the buffer, all of them inside it.
C20_BoundsSafety ==
    /\ read_phs # NotRead =>
          /\ (Declared.phnum > 0 /\ Declared.phentsize = SizeOfPhdr
                /\ Declared.phoff + Declared.phnum * SizeOfPhdr > Len(buf)) =>
                OutOfBounds(read_phs)
          /\ Declared.phnum = 0 => read_phs = Ok(<<>>)
          /\ read_phs.ok =>
                /\ Len(read_phs.val) = Declared.phnum
                /\ RecordsInside([i \in DOMAIN read_phs.val |-> PhdrBytes(read_phs.val[i])],
                                 Declared.phoff, SizeOfPhdr)
    /\ read_shs # NotRead =>
          /\ (Declared.shnum > 0 /\ Declared.shentsize = SizeOfShdr
                /\ Declared.shoff + Declared.shnum * SizeOfShdr > Len(buf)) =>
                OutOfBounds(read_shs)
          /\ Declared.shnum = 0 => read_shs = Ok(<<>>)
          /\ read_shs.ok =>
                /\ Len(read_shs.val) = Declared.shnum
                /\ RecordsInside([i \in DOMAIN read_shs.val |-> ShdrBytes(read_shs.val[i])],
                                 Declared.shoff, SizeOfShdr)
    /\ read_syms # NotRead =>
          \E sh \in {section_header_by_type(buf, SHT_SYMTAB)} :
             /\ (sh.ok /\ sh.val.offset + sh.val.size > Len(buf)) =>
                   OutOfBounds(read_syms)
             /\ read_syms.ok =>
                   /\ sh.ok
                   /\ SizeOfSym * Len(read_syms.val) <= sh.val.size
                   /\ RecordsInside([i \in DOMAIN read_syms.val |->
                                       SymBytes(read_syms.val[i])],
                                    sh.val.offset, SizeOfSym)

\* Of one file, the program headers were refused as out of bounds, and the
\* section headers and the symbols were returned.
C20_Witness ==
    /\ read_phs # NotRead /\ OutOfBounds(read_phs)
    /\ read_shs # NotRead /\ read_shs.ok /\ Len(read_shs.val) = 2
    /\ read_syms # NotRead /\ read_syms.ok /\ Len(read_syms.val) = 2

-----------------------------------------------------------------------------
(* The name table of the writer the emission loop has filled *)

\* The name table: the content of the section at SH_STRTAB.
EmittedTable == writer.sections[SH_STRTAB + 1].content

\* The index add_sh_string returned for the name of section s of the plan: the
\* loop hands it on as the name of the section it adds.
NameIndex(s) == writer.sections[s + 2].name

\* The length of the name table before the name of section s was added: the
\* eleven bytes it is seeded with and the names added before, a nul after each.
RECURSIVE LengthBefore(_)
LengthBefore(s) ==
    IF s = 1 THEN 11
    ELSE LengthBefore(s - 1) + Len(storage.sections[s - 1].name) + 1

\* C21: after the calls of add_sh_string the emission loop has made, the bytes
\* of the name table from every index returned up to the next nul are the name
\* given in that call, index 0 is still the empty string and index 1 still
\* .shstrtab, every index returned is the length the table had before the
\* call, and the indices returned grow from call to call.
C21_ShStringsStable ==
    writer # NoWriter =>
       /\ string_in(EmittedTable, 0) = Ok(<<>>)
       /\ string_in(EmittedTable, 1) = Ok(DotShstrtab)
       /\ \A s \in DOMAIN storage.sections :
             /\ string_in(EmittedTable, NameIndex(s)) = Ok(storage.sections[s].name)
             /\ NameIndex(s) = LengthBefore(s)
       /\ \A s, t \in DOMAIN storage.sections : s < t => NameIndex(s) < NameIndex(t)

\* The loop has added three names.
C21_Witness ==
    /\ writer # NoWriter
    /\ Len(storage.sections) = 3
    /\ Len(EmittedTable) = 11 + 6 + 6 + 5

-----------------------------------------------------------------------------
(* The image write() returns, checked against the writer it was made from *)

\* The header, and the k-th program and section header, as the image holds them.
ImageHeader == ParseElfHeader(SubSeq(output.bytes, 1, SizeOfElfHeader))
ImagePhdr(k) ==
    ParsePhdr(SubSeq(output.bytes, ImageHeader.phoff + (k - 1) * SizeOfPhdr + 1,
                     ImageHeader.phoff + k * SizeOfPhdr))
ImageShdr(k) ==
    ParseShdr(SubSeq(output.bytes, ImageHeader.shoff + (k - 1) * SizeOfShdr + 1,
                     ImageHeader.shoff + k * SizeOfShdr))

\* n rounded up to a multiple of a.
RoundUp(n, a) == ((n + a - 1) \div a) * a

\* The alignment section k asks for: the one it declares, or 1.
AlignOf(k) ==
    IF writer.sections[k].addr_align.some THEN writer.sections[k].addr_align.val ELSE 1

\* Where the content of section k is to start and where the cursor stands
\* after it: after both header tables for the first, and an empty section
\* leaves the cursor where it is.
RECURSIVE CursorAfter(_)
StartOf(k) == RoundUp(CursorAfter(k - 1), AlignOf(k))
CursorAfter(k) ==
    IF k = 0
    THEN SizeOfElfHeader + SizeOfPhdr * Len(writer.programs_headers)
         + SizeOfShdr * Len(writer.sections)
    ELSE IF writer.sections[k].content = <<>> THEN CursorAfter(k - 1)
    ELSE StartOf(k) + Len(writer.sections[k].content)

C28_AssertionsHold ==
    ~(output.tag = "Panic" /\ output.at = "align_up")

-----------------------------------------------------------------------------
(* An ElfReader asked for section contents and strings *)

\* Whole files whose second section is of another type than a symbol table,
\* and lies in the file, at its end or past it.
ContentShapes ==
    { [Shaped EXCEPT !.symtype = t, !.symoff = o, !.symsize = z] :
        t \in {SHT_NOBITS, SHT_PROGBITS},
        o \in {ShapedSymoff, ShapedLen, ShapedLen + 8},
        z \in {0, 20, 2 * SizeOfSym, 3 * SizeOfSym} }

\* The longest string table of a file with string tables.
MaxTable == 3

\* b"\0.shstrtab\0.strtab\0"
ShapedNames == <<0>> \o DotShstrtab \o <<0>> \o DotStrtab \o <<0>>

\* The bytes of a file with the null section, .shstrtab and .strtab: the
\* section name table is g.names, the content of .strtab is g.strtab, and
\* .strtab is of type g.type.
StringImage(g) ==
    LET shoff == SizeOfElfHeader
        names_off == shoff + 3 * SizeOfShdr
        strtab_off == names_off + Len(ShapedNames)
        hdr == [ ident |-> Ident(ELFMAG), type |-> ET_REL, machine |-> EM_X86_64,
                 version |-> 1, entry |-> Zeros(8), phoff |-> 0,
                 shoff |-> shoff, flags |-> Zeros(4),
                 ehsize |-> SizeOfElfHeader, phentsize |-> SizeOfPhdr,
                 phnum |-> 0, shentsize |-> SizeOfShdr, shnum |-> 3,
                 shstrndex |-> 1 ]
        shstrtab == [ name |-> 1, type |-> SHT_STRTAB, flags |-> 0, addr |-> 0,
                      offset |-> names_off, size |-> Len(g.names), link |-> 0,
                      info |-> 0, addralign |-> 1, entsize |-> 0 ]
        strtab == [ name |-> 11, type |-> g.type, flags |-> 0, addr |-> 0,
                    offset |-> strtab_off, size |-> Len(g.strtab), link |-> 0,
                    info |-> 0, addralign |-> 1, entsize |-> 0 ]
    IN  ElfHeaderBytes(hdr) \o Zeros(SizeOfShdr) \o ShdrBytes(shstrtab)
           \o ShdrBytes(strtab) \o ShapedNames \o g.strtab

\* String tables that end with a nul byte and that do not, of every length
\* up to MaxTable, over a nul byte and a letter; a section name table cut
\* before its last nul byte.
StringShapes ==
    { [ names |-> n, type |-> t, strtab |-> c ] :
        n \in { ShapedNames, SubSeq(ShapedNames, 1, Len(ShapedNames) - 1) },
        t \in { SHT_STRTAB, SHT_NOBITS },
        c \in UNION { [1..k -> {0, 97}] : k \in 0..MaxTable } }

LookupInit ==
    /\ debug_assertions \in BOOLEAN
    /\ writer = NoWriter
    /\ strs = <<>>
    /\ supplied = <<>>
    /\ output = NoOutput
    /\ parsed = NoParse
    /\ LinkIdle
    /\ AlignIdle
    /\ ParseIdle
    /\ \/ \E f \in ContentShapes : buf = ReadImage(f)
       \/ \E g \in StringShapes : buf = StringImage(g)
    /\ reader = NotRead
    /\ read_phs = NotRead
    /\ read_shs = NotRead
    /\ read_syms = NotRead
    /\ read_content = NotRead
    /\ read_string = NotRead

\* reader.section_content(sh), for a section header sh of the file
SectionContent ==
    /\ HasReader
    /\ read_content = NotRead
    /\ \E shs \in {section_headers(reader.val)} :
          /\ shs.ok
          /\ \E i \in DOMAIN shs.val :
                read_content' =
                    [ sh |-> shs.val[i],
                      ret |-> section_content(reader.val, shs.val[i]) ]
    /\ UNCHANGED <<wvars, lvars, avars, pvars, buf, reader, read_phs, read_shs,
                   read_syms, read_string>>

\* The string indices asked for: in the tables, at their ends and past them.
StringIdxs == 0..(MaxTable + 1) \cup {11, Len(ShapedNames) - 1, Len(ShapedNames),
                                       Len(ShapedNames) + 1}

\* reader.sh_string(idx)
ShString ==
    /\ HasReader
    /\ read_string = NotRead
    /\ \E idx \in StringIdxs :
          read_string' = [ op |-> "sh_string", idx |-> idx,
                           ret |-> sh_string(reader.val, idx) ]
    /\ UNCHANGED <<wvars, lvars, avars, pvars, buf, reader, read_phs, read_shs,
                   read_syms, read_content>>

\* reader.string(idx)
String ==
    /\ HasReader
    /\ read_string = NotRead
    /\ \E idx \in StringIdxs :
          read_string' = [ op |-> "string", idx |-> idx,
                           ret |-> string(reader.val, idx) ]
    /\ UNCHANGED <<wvars, lvars, avars, pvars, buf, reader, read_phs, read_shs,
                   read_syms, read_content>>

LookupNext ==
    \/ New
    \/ SectionContent
    \/ ShString
    \/ String

LookupSpec == LookupInit /\ [][LookupNext]_vars

\* C24: section_content(sh) returns the empty slice for every section header
\* of type SHT_NOBITS, wherever its offset and size point; for a header of
\* another type it returns the bytes [offset, offset + size) of the buffer
\* when offset + size is at most the length of the buffer, and fails with an
\* out-of-bounds error otherwise.
C24_SectionContent ==
    read_content # NotRead =>
       \E sh \in {read_content.sh} :
          IF sh.type = SHT_NOBITS THEN read_content.ret = Ok(<<>>)
          ELSE IF sh.offset + sh.size <= Len(buf)
          THEN read_content.ret = Ok(SubSeq(buf, sh.offset + 1, sh.offset + sh.size))
          ELSE OutOfBounds(read_content.ret)

\* section_content has returned the empty slice for a no-bits section that
\* lies past the end of the file.
C24_Witness ==
    /\ read_content # NotRead
    /\ read_content.sh.type = SHT_NOBITS
    /\ read_content.sh.offset > Len(buf)
    /\ read_content.sh.size > 0
    /\ read_content.ret = Ok(<<>>)

\* The string table the lookup made reads: sh_str_table() or str_table().
TableRead ==
    IF read_string.op = "sh_string" THEN sh_str_table(reader.val)
    ELSE str_table(reader.val)

\* C25: with T the content of the string table of the lookup, sh_string(idx)
\* and string(idx) return the bytes of T from idx up to the first nul byte at
\* or after idx; they fail with NoStringNulTerm when T has no nul byte at or
\* after idx (so when idx is the length of T), and with an out-of-bounds error
\* when idx is greater than the length of T.
C25_StringLookup ==
    read_string # NotRead =>
       \E T \in {TableRead} :
          IF ~T.ok THEN read_string.ret = T
          ELSE LET idx == read_string.idx
                   Nuls == { k \in idx..(Len(T.val) - 1) : T.val[k + 1] = 0 }
               IN  IF idx > Len(T.val) THEN OutOfBounds(read_string.ret)
                   ELSE IF Nuls = {}
                   THEN /\ ~read_string.ret.ok
                        /\ read_string.ret.err[1] = "NoStringNulTerm"
                   ELSE \E k \in Nuls :
                           /\ \A j \in Nuls : k <= j
                           /\ read_string.ret = Ok(SubSeq(T.val, idx + 1, k))

\* sh_string(11) has returned .strtab, the name in the middle of the table.
C25_Witness ==
    /\ read_string # NotRead
    /\ read_string.op = "sh_string"
    /\ read_string.idx = 11
    /\ read_string.ret = Ok(DotStrtab)

-----------------------------------------------------------------------------
(* align_up of the writer, called on its own *)

\* The largest number aligned, and the logarithm of the largest alignment.
MaxAlignN == 40
MaxAlignLog == 4

\* No writer, no link and no reader are at work.
OthersIdle ==
    /\ writer = NoWriter
    /\ strs = <<>>
    /\ supplied = <<>>
    /\ output = NoOutput
    /\ parsed = NoParse
    /\ LinkIdle
    /\ ReadIdle

AlignInit ==
    /\ debug_assertions \in BOOLEAN
    /\ OthersIdle
    /\ ParseIdle
    /\ align_n \in 0..MaxAlignN
    /\ align_align \in { 2 ^ k : k \in 0..MaxAlignLog }
    /\ align_ret = NotCalled

\* align_up(n, align)
AlignUp ==
    /\ align_ret = NotCalled
    /\ align_ret' = align_up(align_n, align_align)
    /\ UNCHANGED <<wvars, lvars, rvars, pvars, align_n, align_align>>

AlignNext == AlignUp

AlignSpec == AlignInit /\ [][AlignNext]_vars

\* C26: for every n and every power of two align, align_up(n, align) returns
\* the smallest multiple of align that is at least n: n itself when n is a
\* multiple of align, and so for align 1.
C26_SmallestMultiple ==
    align_ret # NotCalled =>
       /\ ~align_ret.panic
       /\ align_ret.val % align_align = 0
       /\ align_ret.val >= align_n
       /\ align_ret.val - align_n < align_align

-----------------------------------------------------------------------------
(* elven-wald's option parser: opts::parse *)

\* The longest argument list parsed.
MaxArgs == 3

\* Arguments are strings, here sequences of characters.
\* OPTS: entry and output, both with a short name and both taking a String.
OPTS ==
    << [short |-> "e", long |-> <<"e", "n", "t", "r", "y">>,
        takes_value |-> Some("entry")],
       [short |-> "o", long |-> <<"o", "u", "t", "p", "u", "t">>,
        takes_value |-> Some("output")] >>

\* Opts::default()
Opts_default == [entry |-> None, output |-> None]

\* arg.starts_with(c)
starts_with(arg, c) == Len(arg) > 0 /\ arg[1] = c

\* arg.chars().position(|c| c == '=').unwrap_or(arg.len())
long_end_of(arg) ==
    IF \E i \in DOMAIN arg : arg[i] = "="
    THEN (CHOOSE i \in DOMAIN arg :
              arg[i] = "=" /\ \A j \in 1..(i - 1) : arg[j] # "=") - 1
    ELSE Len(arg)

\* OPTS.iter().find(..): the first of the indices of the options the closure
\* holds of, or 0.
find_opt(matching) ==
    IF matching = {} THEN 0
    ELSE CHOOSE i \in matching : \A j \in matching : i <= j

\* What one turn of the loop leaves: the options, the files, the pending
\* value and the error the turn bails with, if any.
Turn(o, f, rv, bail) ==
    [opts |-> o, files |-> f, require_value |-> rv, bail |-> bail]

\* The body of the loop with the pending value looked at after the options
\* and the files: a pending value that starts with a dash is an option.
parse_arg_options_first(arg, o, f, rv) ==
    IF starts_with(arg, "@")
    THEN Turn(o, f, rv, Some("@file parsing syntax is not implemented yet."))
    ELSE IF rv.some /\ ~starts_with(arg, "-")
    THEN Turn([o EXCEPT ![rv.val] = Some(arg)], f, None, None)
    ELSE IF starts_with(arg, "-")
    THEN Turn(o, f, rv, Some("unrecognized option"))
    ELSE Turn(o, Append(f, arg), rv, None)

\* The body of `while let Some(arg) = args.next()`.
parse_arg(arg, o, f, rv) ==
    IF starts_with(arg, "@")
    THEN Turn(o, f, rv, Some("@file parsing syntax is not implemented yet."))
    ELSE IF rv.some
    THEN Turn([o EXCEPT ![rv.val] = Some(arg)], f, None, None)
    ELSE IF starts_with(arg, "-")
    THEN IF Len(arg) < 2
         THEN Turn(o, f, rv, Some("option starting with - requires a value"))
         ELSE LET first_c == arg[2]
                  long_start == IF first_c = "-" THEN 2 ELSE 1
                  long_end == long_end_of(arg)
                  long_flag_name == SubSeq(arg, long_start + 1, long_end)
                  is_long(opt) ==
                      LET skip_because_of_o ==
                              starts_with(long_flag_name, "o") /\ first_c # "-"
                      IN  ~skip_because_of_o /\ opt.long = long_flag_name
                  is_short(opt) == opt.short = first_c
                  long == find_opt({i \in DOMAIN OPTS : is_long(OPTS[i])})
                  short == find_opt({i \in DOMAIN OPTS : is_short(OPTS[i])})
              IN  IF long # 0
                  THEN IF long_end # Len(arg)
                       THEN Turn([o EXCEPT ![OPTS[long].takes_value.val] =
                                     Some(SubSeq(arg, long_end + 2, Len(arg)))],
                                 f, rv, None)
                       ELSE Turn(o, f, OPTS[long].takes_value, None)
                  ELSE IF short # 0
                  THEN IF Len(long_flag_name) > 1
                       THEN Turn([o EXCEPT ![OPTS[short].takes_value.val] =
                                     Some(Tail(long_flag_name))],
                                 f, rv, None)
                       ELSE Turn(o, f, OPTS[short].takes_value, None)
                  ELSE Turn(o, f, rv, Some("unrecognized option"))
    ELSE Turn(o, Append(f, arg), rv, None)

\* The arguments the parser is run on.
ArgPool ==
    { <<"-", "o">>, <<"-", "e">>,
      <<"-", "-", "e", "n", "t", "r", "y">>,
      <<"-", "-", "o", "u", "t", "p", "u", "t">>,
      <<"-", "e", "n", "t", "r", "y">>,
      <<"-", "o", "a">>,
      <<"-", "-", "o", "u", "t", "p", "u", "t", "=", "a">>,
      <<"a">>, <<"@", "a">>, <<"-", "x">>, <<"-">> }

ArgLists == UNION { [1..n -> ArgPool] : n \in 0..MaxArgs }

ParseInit ==
    /\ debug_assertions \in BOOLEAN
    /\ OthersIdle
    /\ AlignIdle
    /\ args \in ArgLists
    /\ opts = Opts_default
    /\ input_files = <<>>
    /\ require_value = None
    /\ parse_ret = NotCalled

\* One turn of the loop: args.next() is Some(arg).
ParseArg ==
    /\ parse_ret = NotCalled
    /\ args # <<>>
    /\ LET t == parse_arg(Head(args), opts, input_files, require_value)
       IN  /\ args' = Tail(args)
           /\ opts' = t.opts
           /\ input_files' = t.files
           /\ require_value' = t.require_value
           /\ parse_ret' = IF t.bail.some THEN Err(t.bail.val) ELSE NotCalled
    /\ UNCHANGED <<wvars, lvars, rvars, avars>>

\* args.next() is None: the check after the loop and the return.
ParseEnd ==
    /\ parse_ret = NotCalled
    /\ args = <<>>
    /\ parse_ret' =
           IF require_value.some
           THEN Err("last option required a value but none was supplied")
           ELSE Ok(<<opts, input_files>>)
    /\ UNCHANGED <<wvars, lvars, rvars, avars, args, opts, input_files,
                   require_value>>

ParseNext == ParseArg \/ ParseEnd

ParseSpec == ParseInit /\ [][ParseNext]_vars

\* The options given without an attached value.
ValueTaking ==
    { <<"-", "o">>, <<"-", "e">>,
      <<"-", "-", "e", "n", "t", "r", "y">>,
      <<"-", "-", "o", "u", "t", "p", "u", "t">> }

\* The field an option of ValueTaking sets.
FieldOf(arg) == IF arg[Len(arg)] \in {"e", "y"} THEN "entry" ELSE "output"

\* The parser is in its loop, about to take an argument in normal mode.
TakesOption ==
    /\ parse_ret = NotCalled
    /\ args # <<>>
    /\ ~require_value.some
    /\ Head(args) \in ValueTaking

\* The parser is in its loop with a value pending.
Pending == parse_ret = NotCalled /\ require_value.some

\* The pending value is the next argument, verbatim, and nothing else changes.
ConsumesValue ==
    /\ opts' = [opts EXCEPT ![require_value.val] = Some(Head(args))]
    /\ require_value' = None
    /\ input_files' = input_files
    /\ parse_ret' = NotCalled

\* C27 as stated: a value-taking option without an attached value leaves its
\* value pending; the next argument is then taken verbatim as the value
\* whatever its first character, and the parser is back in normal mode; parse
\* fails if the arguments end while a value is pending.
C27_Original ==
    [][ /\ TakesOption => /\ require_value' = Some(FieldOf(Head(args)))
                          /\ parse_ret' = NotCalled
        /\ Pending /\ args # <<>> => ConsumesValue
        /\ Pending /\ args = <<>> => ~parse_ret'.ok ]_vars

\* C27: as above, except that a pending value that starts with @ is not
\* taken: parse fails on it as on every argument that starts with @.
C27_PendingValue ==
    [][ /\ TakesOption => /\ require_value' = Some(FieldOf(Head(args)))
                          /\ parse_ret' = NotCalled
        /\ Pending /\ args # <<>> /\ ~starts_with(Head(args), "@")
               => ConsumesValue
        /\ Pending /\ args # <<>> /\ starts_with(Head(args), "@")
               => parse_ret' =
                      Err("@file parsing syntax is not implemented yet.")
        /\ Pending /\ args = <<>> => ~parse_ret'.ok ]_vars

\* parse(["--output", "-x", "a"]) has returned: -x is the output, a a file.
C27_Witness ==
    /\ parse_ret # NotCalled
    /\ parse_ret.ok
    /\ opts.output = Some(<<"-", "x">>)
    /\ opts.entry = None
    /\ input_files = << <<"a">> >>

-----------------------------------------------------------------------------
(* A writer at the limit of the 16-bit section count *)

\* The most sections added to the full writer.
MaxExtra == 2

\* A section with no content, as the sections that fill the writer.
EmptySection ==
    [ name |-> 0, type |-> SHT_PROGBITS, flags |-> 0, fixed_entsize |-> None,
      addr_align |-> None, content |-> <<>> ]

\* The writer after ElfWriter::new(header) and U16_MAX - 2 calls of
\* add_section(EmptySection), which returned the ordinals 2..U16_MAX - 1: it
\* holds U16_MAX sections.
Filled(hdr) ==
    LET w == ElfWriter_new(hdr)
    IN  [w EXCEPT !.sections =
            [i \in 1..U16_MAX |-> IF i <= 2 THEN w.sections[i] ELSE EmptySection]]

BulkInit ==
    /\ debug_assertions \in BOOLEAN
    /\ ReadIdle
    /\ AlignIdle
    /\ ParseIdle
    /\ \E h \in Headers : writer = Filled(h)
    /\ strs = <<>>
    /\ supplied = <<>>
    /\ output = NoOutput
    /\ parsed = NoParse
    /\ LinkIdle

\* add_section on the full writer; supplied holds the calls made since.
BulkAddSection ==
    /\ Len(supplied) < MaxExtra
    /\ output = NoOutput
    /\ \E section \in SectionsToAdd :
          LET r == add_section(writer, section)
          IN /\ writer' = r.w
             /\ supplied' = Append(supplied, [section |-> section, ret |-> r.ret])
    /\ UNCHANGED <<debug_assertions, strs, output, parsed, lvars, rvars, avars,
                   pvars>>

\* write() after the sections were added.
BulkWrite ==
    /\ supplied # <<>>
    /\ output = NoOutput
    /\ output' = write(writer)
    /\ UNCHANGED <<debug_assertions, writer, strs, supplied, parsed, lvars,
                   rvars, avars, pvars>>

BulkNext == BulkAddSection \/ BulkWrite

BulkSpec == BulkInit /\ [][BulkNext]_vars

\* The number of sections the writer held before the i-th call of supplied.
CountBefore(i) == Len(writer.sections) - Len(supplied) + i - 1

\* C22: add_section fails with TooMany("sections") exactly when the section
\* count with the new section no longer fits 16 bits; so after calls that all
\* succeeded write() does not fail with TooMany("sections"); and every ordinal
\* returned is the number of sections present before the call.
C22_TooManyExactly ==
    /\ \A i \in DOMAIN supplied :
          /\ ~supplied[i].ret.ok <=> CountBefore(i) + 1 > U16_MAX
          /\ ~supplied[i].ret.ok => supplied[i].ret.err = <<"TooMany", "sections">>
          /\ supplied[i].ret.ok => supplied[i].ret.val = CountBefore(i)
    /\ (\A i \in DOMAIN supplied : supplied[i].ret.ok)
          => output # Failed(<<"TooMany", "sections">>)

\* C30: a call of add_section that returns TooMany("sections") leaves the
\* section list, the name table and the program headers of the writer as they
\* were.
C30_FailedAddLeavesWriter ==
    [][ /\ Len(supplied') = Len(supplied) + 1
        /\ ~supplied'[Len(supplied')].ret.ok
        => writer' = writer ]_vars

-----------------------------------------------------------------------------
(* allocate_storage and the alignments sections declare *)

\* C29: allocate_storage does not abort: whatever alignment the .text, .data
\* and .bss sections of the inputs declare, 0 and 1 included, the power of two
\* assertion of AlignExt::align_up is not tripped.
C29_AllocateNeverAborts ==
    ~(result.tag = "Panic" /\ result.at = "alloc")

=============================================================================
